---- MODULE Spec2Model ----
(***************************************************************************)
(* Model of the retrieval-augmented query core of RAGMetaAdsAnalyst:       *)
(*   src/src/rag_processor.py   MockVectorStore, CampaignRAGProcessor      *)
(*   src/src/query_processor.py CampaignQueryProcessor                     *)
(*   src/src/rag_pipeline.py    MetaAdsRAGPipeline, MockLLM, MockRAGChain  *)
(* Python str values are TLA+ strings; a character is a string of length 1.*)
(* Python float values that decide an ordering are pairs (exact numerator, *)
(* binary64 rounding deviation in ulps), compared lexicographically.       *)
(***************************************************************************)
EXTENDS Integers, Sequences, FiniteSets, TLC

VARIABLES mvs, qp, query_processor, chunker, env, chroma, rag, pipeline, response, batch, stats,
          build

vars == <<mvs, qp, query_processor, chunker, env, chroma, rag, pipeline, response, batch,
          stats, build>>

pipeline_vars == <<env, chroma, rag, pipeline, response, batch, stats, build>>

(***************************************************************************)
(* Bounds of the model.                                                    *)
(***************************************************************************)
MaxCorpus == 3
MaxK == 3
MaxHistory == 3

(***************************************************************************)
(* Python str operations.                                                  *)
(***************************************************************************)
Min(a, b) == IF a <= b THEN a ELSE b
Max(a, b) == IF a >= b THEN a ELSE b

CharAt(s, i) == SubSeq(s, i, i)

UpperCase == <<"A","B","C","D","E","F","G","H","I","J","K","L","M",
               "N","O","P","Q","R","S","T","U","V","W","X","Y","Z">>
LowerCase == <<"a","b","c","d","e","f","g","h","i","j","k","l","m",
               "n","o","p","q","r","s","t","u","v","w","x","y","z">>
Digits == {"0","1","2","3","4","5","6","7","8","9"}
Whitespace == {" ", "\n", "\t"}

LowerChar(c) ==
    IF \E i \in 1..26 : UpperCase[i] = c
    THEN LowerCase[CHOOSE i \in 1..26 : UpperCase[i] = c]
    ELSE c

\* str.lower()
RECURSIVE lower(_)
lower(s) ==
    IF Len(s) <= 1 THEN LowerChar(s)
    ELSE LET h == Len(s) \div 2
         IN  lower(SubSeq(s, 1, h)) \o lower(SubSeq(s, h + 1, Len(s)))

\* str.split() with no separator: maximal runs of non-whitespace characters
RECURSIVE SplitFrom(_, _)
SplitFrom(s, pos) ==
    LET rest == {i \in pos..Len(s) : CharAt(s, i) \notin Whitespace}
    IN  IF rest = {} THEN <<>>
        ELSE LET b == CHOOSE i \in rest : \A j \in rest : i <= j
                 ends == {j \in b..Len(s) : j = Len(s) \/ CharAt(s, j + 1) \in Whitespace}
                 e == CHOOSE i \in ends : \A j \in ends : i <= j
             IN  <<SubSeq(s, b, e)>> \o SplitFrom(s, e + 1)

split(s) == SplitFrom(s, 1)

\* set(seq)
ToSet(seq) == {seq[i] : i \in 1..Len(seq)}

\* sep.join(parts)
RECURSIVE join(_, _)
join(sep, parts) ==
    IF parts = <<>> THEN ""
    ELSE IF Len(parts) = 1 THEN parts[1]
    ELSE parts[1] \o sep \o join(sep, Tail(parts))

\* seq[:n] for n >= 0
Take(seq, n) == SubSeq(seq, 1, Min(n, Len(seq)))

\* sub in s
Contains(s, sub) ==
    \E i \in 1..(Len(s) - Len(sub) + 1) : SubSeq(s, i, i + Len(sub) - 1) = sub

(***************************************************************************)
(* langchain Document: page_content and metadata.  metadata is the dict in *)
(* insertion order, as <<key, str(value)>> pairs.                          *)
(***************************************************************************)
Document(content, metadata) == [page_content |-> content, metadata |-> metadata]

MetadataValues(doc) == [i \in 1..Len(doc.metadata) |-> doc.metadata[i][2]]

\* " ".join(str(v) for v in doc.metadata.values())
metadata_text(doc) == join(" ", MetadataValues(doc))

(***************************************************************************)
(* Python formatting used by the chunker.  A float read from the data file *)
(* is a pair (n, d): the value n / 10^d, with d the decimals it is stored  *)
(* with (spend, cpm, cpc: 2; ctr, roas, frequency: 1).                     *)
(***************************************************************************)
\* str(n) for an int n >= 0
str(n) == ToString(n)

Pow10(d) == IF d = 0 THEN 1 ELSE IF d = 1 THEN 10 ELSE 100

ZeroPad(n, w) ==
    LET t == ToString(n)
    IN  IF Len(t) >= w THEN t ELSE SubSeq("000", 1, w - Len(t)) \o t

\* f"{x:.df}" for x = n / 10^d
fixed(n, d) == ToString(n \div Pow10(d)) \o "." \o ZeroPad(n % Pow10(d), d)

RECURSIVE StripZeros(_)
StripZeros(t) ==
    IF Len(t) > 1 /\ CharAt(t, Len(t)) = "0" THEN StripZeros(SubSeq(t, 1, Len(t) - 1)) ELSE t

\* str(x) for the float x = n / 10^d: the shortest repr, at least one decimal
float_str(n, d) ==
    ToString(n \div Pow10(d)) \o "." \o StripZeros(ZeroPad(n % Pow10(d), d))

\* f"{n:,}"
RECURSIVE thousands(_)
thousands(n) ==
    IF n < 1000 THEN ToString(n)
    ELSE thousands(n \div 1000) \o "," \o ZeroPad(n % 1000, 3)

\* str(list) of a list of str
list_str(seq) ==
    "[" \o join(", ", [i \in 1..Len(seq) |-> "'" \o seq[i] \o "'"]) \o "]"

\* s.replace(a, b) for single characters a and b
RECURSIVE replace(_, _, _)
replace(s, a, b) ==
    IF Len(s) <= 1 THEN (IF s = a THEN b ELSE s)
    ELSE LET h == Len(s) \div 2
         IN  replace(SubSeq(s, 1, h), a, b) \o replace(SubSeq(s, h + 1, Len(s)), a, b)

UpperChar(c) ==
    IF \E i \in 1..26 : LowerCase[i] = c
    THEN UpperCase[CHOOSE i \in 1..26 : LowerCase[i] = c]
    ELSE c

IsLetter(c) == \E i \in 1..26 : LowerCase[i] = c \/ UpperCase[i] = c

\* s.title(): a letter is upper-cased after a non-letter, lower-cased after a letter
RECURSIVE TitleRange(_, _, _)
TitleRange(s, a, b) ==
    IF a > b THEN ""
    ELSE IF a = b
         THEN (IF a > 1 /\ IsLetter(CharAt(s, a - 1))
               THEN LowerChar(CharAt(s, a)) ELSE UpperChar(CharAt(s, a)))
         ELSE LET h == (a + b) \div 2
              IN  TitleRange(s, a, h) \o TitleRange(s, h + 1, b)

title(s) == TitleRange(s, 1, Len(s))

\* s.strip()
strip(s) ==
    LET ink == {i \in 1..Len(s) : CharAt(s, i) \notin Whitespace}
    IN  IF ink = {} THEN ""
        ELSE SubSeq(s, CHOOSE i \in ink : \A j \in ink : i <= j,
                       CHOOSE i \in ink : \A j \in ink : i >= j)

\* the characters of date keys in the order of their code points, and the
\* place of a character in it
DateChars == "-/0123456789"

Ord(c) == CHOOSE n \in 1..Len(DateChars) : SubSeq(DateChars, n, n) = c

RECURSIVE StrLess(_, _)
\* a < b for two str of these characters: the first differing character
\* decides, and a proper prefix is smaller
StrLess(a, b) ==
    IF b = "" THEN FALSE
    ELSE IF a = "" THEN TRUE
    ELSE IF SubSeq(a, 1, 1) = SubSeq(b, 1, 1)
         THEN StrLess(SubSeq(a, 2, Len(a)), SubSeq(b, 2, Len(b)))
    ELSE Ord(SubSeq(a, 1, 1)) < Ord(SubSeq(b, 1, 1))

(***************************************************************************)
(* The data file data/demo/campaigns.json.  A JSON object is a record with *)
(* a field keys, the keys the object holds; a key outside keys is absent.  *)
(* daily_performance, insights, market_trends and best_practices are the   *)
(* (key, value) pairs of the object in file order.                         *)
(***************************************************************************)
None == "None"
EmptyDict == [keys |-> {}]

Get(obj, key, default) == IF key \in obj.keys THEN obj[key] ELSE default

MetricKeys ==
    <<"impressions", "clicks", "spend", "conversions", "ctr", "cpm", "cpc", "roas", "frequency">>

Metrics(impressions, clicks, spend, conversions, ctr, cpm, cpc, roas, frequency) ==
    [impressions |-> impressions, clicks |-> clicks, spend |-> spend,
     conversions |-> conversions, ctr |-> ctr, cpm |-> cpm, cpc |-> cpc,
     roas |-> roas, frequency |-> frequency]

Camp001 ==
    [keys |-> {"id", "name", "objective", "status", "industry", "audience", "budget",
               "targeting", "daily_performance", "insights"},
     id |-> "camp_001", name |-> "Summer Fashion Sale", objective |-> "CONVERSIONS",
     status |-> "ACTIVE", industry |-> "Fashion", audience |-> "Lookalike 1%",
     budget |-> [keys |-> {"daily_budget", "total_budget"},
                 daily_budget |-> 150, total_budget |-> 4500],
     targeting |-> [keys |-> {"age_min", "age_max", "interests", "placements"},
                    age_min |-> 25, age_max |-> 45,
                    interests |-> <<"fashion", "online shopping">>,
                    placements |-> <<"feed", "stories">>],
     daily_performance |->
        << [date |-> "2024-01-16",
            metrics |-> Metrics(1250000, 9100, 2140000, 410, 7, 1712, 235, 18, 31)],
           [date |-> "2024-01-15",
            metrics |-> Metrics(45000, 900, 67550, 36, 20, 1501, 75, 32, 18)] >>,
     insights |->
        << [key |-> "top_performing_creative", type |-> "str",
            value |-> <<"Video ad with a CPM spike after the holiday week">>],
           [key |-> "recommendations", type |-> "list",
            value |-> <<"Raise the daily budget", "Refresh creative to fight fatigue">>] >>]

Camp002 ==
    [keys |-> {"id", "name", "objective", "status", "industry", "audience", "budget",
               "targeting", "daily_performance"},
     id |-> "camp_002", name |-> "Fashion Retargeting", objective |-> "CONVERSIONS",
     status |-> "PAUSED", industry |-> "Fashion",
     audience |-> "Retargeting website visitors",
     budget |-> [keys |-> {"daily_budget"}, daily_budget |-> 80, total_budget |-> 0],
     targeting |-> [keys |-> {"age_min", "interests"},
                    age_min |-> 18, age_max |-> 0,
                    interests |-> <<"performance">>,
                    placements |-> <<>>],
     daily_performance |->
        << [date |-> "2024-01-15",
            metrics |-> Metrics(8000, 240, 9600, 12, 30, 1200, 40, 45, 26)] >>,
     insights |-> <<>>]

Camp003 ==
    [keys |-> {"id", "name", "objective", "status", "daily_performance"},
     id |-> "camp_003", name |-> "Gadget Launch", objective |-> "TRAFFIC",
     status |-> "ACTIVE", industry |-> None, audience |-> None,
     budget |-> EmptyDict, targeting |-> EmptyDict,
     daily_performance |->
        << [date |-> "2024-02-01",
            metrics |-> Metrics(999, 0, 5, 0, 0, 501, 0, 0, 10)] >>,
     insights |-> <<>>]

NoInsights ==
    [keys |-> {}, market_trends |-> <<>>, best_practices |-> <<>>,
     anomalies_detected |-> <<>>]

DemoInsights ==
    [keys |-> {"market_trends", "anomalies_detected"},
     market_trends |-> << <<"cpm_trend", "CPM rose 12% in Q4">>,
                          <<"roas_benchmark", "Average ROAS is 2.8x">> >>,
     best_practices |-> <<>>,
     anomalies_detected |->
        << [name |-> "cpm_spike", keys |-> {"date", "campaign", "issue"},
            date |-> "2024-01-16", campaign |-> "Summer Fashion Sale",
            issue |-> "CPM frequency optimization gap", resolution |-> ""] >>]

\* what the data file can hold: no file, text that is not JSON, a JSON object
\* without the key 'campaigns', and three data sets
DataFiles == {"missing", "invalid_json", "no_campaigns", "empty", "single", "demo"}

EmptyData ==
    [keys |-> {"campaigns", "global_insights"}, campaigns |-> <<>>,
     global_insights |-> NoInsights]

\* json.load(f) of a file that holds a JSON object
json_load(data_file) ==
    CASE data_file = "no_campaigns" ->
            [keys |-> {"global_insights"}, campaigns |-> <<>>, global_insights |-> NoInsights]
      [] data_file = "empty" ->
            [keys |-> {"campaigns"}, campaigns |-> <<>>, global_insights |-> NoInsights]
      [] data_file = "single" ->
            [keys |-> {"campaigns"}, campaigns |-> <<Camp003>>,
             global_insights |-> NoInsights]
      [] data_file = "demo" ->
            [keys |-> {"campaigns", "global_insights"},
             campaigns |-> <<Camp001, Camp002>>, global_insights |-> DemoInsights]

\* CampaignDataLoader.load_data: the exception it lets through ("" if none)
\* and campaigns_data
load_data(data_file) ==
    IF data_file \in {"missing", "invalid_json"}
    THEN [raised |-> "", campaigns_data |-> EmptyData]
    ELSE LET data == json_load(data_file)
         IN  IF "campaigns" \in data.keys
             THEN [raised |-> "", campaigns_data |-> data]
             ELSE [raised |-> "KeyError", campaigns_data |-> data]

(***************************************************************************)
(* CampaignDataChunker (data_chunker.py).  A chunk is a record of its id,  *)
(* content and metadata; metadata values are held as their str().          *)
(***************************************************************************)
Chunk(id, content, metadata) == [id |-> id, content |-> content, metadata |-> metadata]

\* the age range written whenever the campaign has targeting
ages_text_always(age_min, age_max) ==
    "Targeting ages " \o str(age_min) \o "-" \o str(age_max) \o ". "

\* if age_min and age_max: text += f"Targeting ages {age_min}-{age_max}. "
ages_text(age_min, age_max) ==
    IF age_min # 0 /\ age_max # 0
    THEN "Targeting ages " \o str(age_min) \o "-" \o str(age_max) \o ". "
    ELSE ""

format_campaign_overview(campaign) ==
    LET industry == Get(campaign, "industry", "Unknown")
        audience == Get(campaign, "audience", "Unknown")
        budget == Get(campaign, "budget", EmptyDict)
        targeting == Get(campaign, "targeting", EmptyDict)
        age_min == Get(targeting, "age_min", 0)
        age_max == Get(targeting, "age_max", 0)
        interests == Get(targeting, "interests", <<>>)
        placements == Get(targeting, "placements", <<>>)
    IN  "Campaign '" \o campaign.name \o "' is a " \o campaign.objective
        \o " campaign in the " \o industry \o " industry targeting " \o audience \o ". "
        \o "Current status: " \o campaign.status \o ". "
        \o (IF budget.keys # {}
            THEN "Daily budget: $" \o str(Get(budget, "daily_budget", 0))
                 \o ", Total budget: $" \o str(Get(budget, "total_budget", 0)) \o ". "
            ELSE "")
        \o (IF targeting.keys # {}
            THEN ages_text(age_min, age_max)
                 \o (IF interests # <<>>
                     THEN "Interest targeting: " \o join(", ", interests) \o ". "
                     ELSE "")
                 \o (IF placements # <<>>
                     THEN "Ad placements: " \o join(", ", placements) \o "."
                     ELSE "")
            ELSE "")

format_daily_performance(campaign, date, metrics) ==
    "On " \o date \o ", campaign '" \o campaign.name \o "' generated "
    \o thousands(metrics.impressions) \o " impressions "
    \o "and " \o thousands(metrics.clicks) \o " clicks, spending $"
    \o fixed(metrics.spend, 2) \o ". "
    \o "This resulted in " \o str(metrics.conversions) \o " conversions. "
    \o "Key metrics: CTR " \o fixed(metrics.ctr, 1) \o "%, "
    \o "CPM $" \o fixed(metrics.cpm, 2) \o ", CPC $" \o fixed(metrics.cpc, 2) \o ", "
    \o "ROAS " \o fixed(metrics.roas, 1) \o "x, Frequency "
    \o fixed(metrics.frequency, 1) \o "."

RECURSIVE InsightsText(_, _)
InsightsText(insights, i) ==
    IF i > Len(insights) THEN ""
    ELSE title(replace(insights[i].key, "_", " ")) \o ": "
         \o (IF insights[i].type = "str" THEN insights[i].value[1]
             ELSE join(", ", insights[i].value))
         \o ". " \o InsightsText(insights, i + 1)

format_campaign_insights(campaign, insights) ==
    "Insights for campaign '" \o campaign.name \o "': " \o InsightsText(insights, 1)

\* daily_perf[max(daily_perf.keys())]
\* the metrics of the key written last in the file
latest_perf_last_written(daily_perf) == daily_perf[Len(daily_perf)].metrics

\* latest_date = max(daily_perf.keys()); latest_perf = daily_perf[latest_date]
latest_perf(daily_perf) ==
    LET i == CHOOSE a \in 1..Len(daily_perf) :
                 \A b \in 1..Len(daily_perf) : ~ StrLess(daily_perf[a].date, daily_perf[b].date)
    IN  daily_perf[i].metrics

RECURSIVE ComparisonText(_, _)
ComparisonText(campaigns, i) ==
    IF i > Len(campaigns) THEN ""
    ELSE LET daily_perf == Get(campaigns[i], "daily_performance", <<>>)
         IN  (IF daily_perf # <<>>
              THEN "'" \o campaigns[i].name \o "' (" \o campaigns[i].status
                   \o ") shows ROAS of " \o fixed(latest_perf(daily_perf).roas, 1)
                   \o "x with CPM of $" \o fixed(latest_perf(daily_perf).cpm, 2) \o ". "
              ELSE "")
             \o ComparisonText(campaigns, i + 1)

format_industry_comparison(industry, campaigns) ==
    "Industry comparison for " \o industry \o " campaigns: " \o ComparisonText(campaigns, 1)

RECURSIVE PairsText(_, _)
PairsText(pairs, i) ==
    IF i > Len(pairs) THEN ""
    ELSE title(replace(pairs[i][1], "_", " ")) \o ": " \o pairs[i][2] \o ". "
         \o PairsText(pairs, i + 1)

format_market_trends(trends) == "Market trends and analysis: " \o PairsText(trends, 1)

format_best_practices(practices) ==
    "Best practices and recommendations: " \o PairsText(practices, 1)

RECURSIVE AnomaliesText(_, _)
AnomaliesText(anomalies, i) ==
    IF i > Len(anomalies) THEN ""
    ELSE LET details == anomalies[i]
         IN  title(replace(details.name, "_", " "))
             \o " on " \o Get(details, "date", "Unknown date")
             \o " in '" \o Get(details, "campaign", "Unknown campaign")
             \o "': " \o Get(details, "issue", "Unknown issue")
             \o ". Resolution: " \o Get(details, "resolution", "No resolution provided")
             \o ". " \o AnomaliesText(anomalies, i + 1)

format_anomalies(anomalies) ==
    "Detected anomalies and issues: " \o AnomaliesText(anomalies, 1)

create_campaign_overview_chunks(campaigns) ==
    [i \in 1..Len(campaigns) |->
        LET campaign == campaigns[i]
        IN  Chunk("overview_" \o campaign.id,
                  format_campaign_overview(campaign),
                  << <<"campaign_id", campaign.id>>,
                     <<"campaign_name", campaign.name>>,
                     <<"chunk_type", "campaign_overview">>,
                     <<"industry", Get(campaign, "industry", None)>>,
                     <<"audience", Get(campaign, "audience", None)>>,
                     <<"status", Get(campaign, "status", None)>>,
                     <<"objective", Get(campaign, "objective", None)>> >>)]

daily_chunk(campaign, day) ==
    Chunk("daily_" \o campaign.id \o "_" \o day.date,
          format_daily_performance(campaign, day.date, day.metrics),
          << <<"campaign_id", campaign.id>>,
             <<"campaign_name", campaign.name>>,
             <<"chunk_type", "daily_performance">>,
             <<"date", day.date>>,
             <<"industry", Get(campaign, "industry", None)>>,
             <<"audience", Get(campaign, "audience", None)>>,
             <<"metrics", list_str(MetricKeys)>>,
             <<"spend", float_str(day.metrics.spend, 2)>>,
             <<"roas", float_str(day.metrics.roas, 1)>>,
             <<"cpm", float_str(day.metrics.cpm, 2)>>,
             <<"ctr", float_str(day.metrics.ctr, 1)>> >>)

RECURSIVE DailyFrom(_, _)
DailyFrom(campaigns, i) ==
    IF i > Len(campaigns) THEN <<>>
    ELSE LET daily_perf == Get(campaigns[i], "daily_performance", <<>>)
         IN  [j \in 1..Len(daily_perf) |-> daily_chunk(campaigns[i], daily_perf[j])]
             \o DailyFrom(campaigns, i + 1)

create_daily_performance_chunks(campaigns) == DailyFrom(campaigns, 1)

RECURSIVE InsightsFrom(_, _)
InsightsFrom(campaigns, i) ==
    IF i > Len(campaigns) THEN <<>>
    ELSE LET campaign == campaigns[i]
             insights == Get(campaign, "insights", <<>>)
         IN  (IF insights = <<>> THEN <<>>
              ELSE << Chunk("insights_" \o campaign.id,
                            format_campaign_insights(campaign, insights),
                            << <<"campaign_id", campaign.id>>,
                               <<"campaign_name", campaign.name>>,
                               <<"chunk_type", "campaign_insights">>,
                               <<"industry", Get(campaign, "industry", None)>>,
                               <<"audience", Get(campaign, "audience", None)>>,
                               <<"insights_keys",
                                 list_str([k \in 1..Len(insights) |-> insights[k].key])>> >>) >>)
             \o InsightsFrom(campaigns, i + 1)

create_insights_chunks(campaigns) == InsightsFrom(campaigns, 1)

\* the keys of by_industry, in the order of their first campaign
RECURSIVE IndustriesFrom(_, _, _)
IndustriesFrom(campaigns, i, seen) ==
    IF i > Len(campaigns) THEN seen
    ELSE LET industry == Get(campaigns[i], "industry", "Unknown")
         IN  IndustriesFrom(campaigns, i + 1,
                 IF industry \in ToSet(seen) THEN seen ELSE Append(seen, industry))

RECURSIVE ComparisonFrom(_, _, _)
ComparisonFrom(campaigns, industries, n) ==
    IF n > Len(industries) THEN <<>>
    ELSE LET industry == industries[n]
             industry_campaigns ==
                 SelectSeq(campaigns, LAMBDA c : Get(c, "industry", "Unknown") = industry)
         IN  (IF Len(industry_campaigns) > 1
              THEN << Chunk("comparison_" \o replace(lower(industry), " ", "_"),
                            format_industry_comparison(industry, industry_campaigns),
                            << <<"chunk_type", "industry_comparison">>,
                               <<"industry", industry>>,
                               <<"campaign_count", str(Len(industry_campaigns))>>,
                               <<"campaign_ids",
                                 list_str([k \in 1..Len(industry_campaigns) |->
                                              industry_campaigns[k].id])>>,
                               <<"campaign_names",
                                 list_str([k \in 1..Len(industry_campaigns) |->
                                              industry_campaigns[k].name])>> >>) >>
              ELSE <<>>)
             \o ComparisonFrom(campaigns, industries, n + 1)

create_comparison_chunks(campaigns) ==
    ComparisonFrom(campaigns, IndustriesFrom(campaigns, 1, <<>>), 1)

GlobalMetadata(chunk_type) ==
    << <<"chunk_type", chunk_type>>, <<"data_type", "global_insights">> >>

create_global_insights_chunks(global_insights) ==
    (IF "market_trends" \in global_insights.keys
     THEN << Chunk("global_market_trends",
                   format_market_trends(global_insights.market_trends),
                   GlobalMetadata("market_trends")) >>
     ELSE <<>>)
    \o (IF "best_practices" \in global_insights.keys
        THEN << Chunk("global_best_practices",
                      format_best_practices(global_insights.best_practices),
                      GlobalMetadata("best_practices")) >>
        ELSE <<>>)
    \o (IF "anomalies_detected" \in global_insights.keys
        THEN << Chunk("global_anomalies",
                      format_anomalies(global_insights.anomalies_detected),
                      GlobalMetadata("anomalies")) >>
        ELSE <<>>)

\* a build that appends the daily chunks before the overviews
create_all_chunks_daily_first(campaigns_data) ==
    create_daily_performance_chunks(Get(campaigns_data, "campaigns", <<>>))
    \o create_campaign_overview_chunks(Get(campaigns_data, "campaigns", <<>>))

create_all_chunks(campaigns_data) ==
    LET campaigns == Get(campaigns_data, "campaigns", <<>>)
    IN  create_campaign_overview_chunks(campaigns)
        \o create_daily_performance_chunks(campaigns)
        \o create_insights_chunks(campaigns)
        \o create_comparison_chunks(campaigns)
        \o create_global_insights_chunks(Get(campaigns_data, "global_insights", NoInsights))

(***************************************************************************)
(* CampaignRAGProcessor: documents and their splitting                     *)
(* (rag_processor.py:78-123).                                              *)
(***************************************************************************)
chunk_size == 1000

\* RecursiveCharacterTextSplitter.split_text of a text of at most chunk_size
\* characters without a blank line: the text stripped, nothing if that is empty
split_text(text) ==
    CASE Len(text) <= chunk_size ->
        IF strip(text) = "" THEN <<>> ELSE <<strip(text)>>

\* documents = [Document(page_content=chunk["content"], metadata=chunk["metadata"])]
chunk_documents(chunks) ==
    [i \in 1..Len(chunks) |-> Document(chunks[i].content, chunks[i].metadata)]

RECURSIVE SplitDocsFrom(_, _)
SplitDocsFrom(documents, i) ==
    IF i > Len(documents) THEN <<>>
    ELSE LET pieces == split_text(documents[i].page_content)
         IN  [j \in 1..Len(pieces) |-> Document(pieces[j], documents[i].metadata)]
             \o SplitDocsFrom(documents, i + 1)

\* the loop that adds chunk_id, source and chunk_length to the split documents
split_docs(documents) ==
    LET pieces == SplitDocsFrom(documents, 1)
    IN  [i \in 1..Len(pieces) |->
            Document(pieces[i].page_content,
                     pieces[i].metadata
                     \o << <<"chunk_id", "chunk_" \o str(i - 1)>>,
                           <<"source", "campaign_data">>,
                           <<"chunk_length", str(Len(pieces[i].page_content))>> >>)]

\* the processed chunks of each data file that loads, evaluated once
ProcessedChunksOf ==
    [f \in DataFiles \ {"no_campaigns"} |->
        split_docs(chunk_documents(create_all_chunks(load_data(f).campaigns_data)))]

(***************************************************************************)
(* The documents and queries of the model, and set(text.lower().split())   *)
(* of each of their texts, evaluated once.                                 *)
(***************************************************************************)
DocPool ==
    { Document("cpm roas spike fashion", << <<"chunk_type", "overview">> >>),
      Document("cpm roas spike", << <<"chunk_type", "cpm roas spike">> >>),
      Document("CPM  Roas", << <<"industry", "cpm">>, <<"audience", "ROAS">> >>),
      Document("travel", << <<"industry", "luxury">> >>),
      Document("cpm roas\nspike", << <<"campaign_id", "None">> >>) }

SearchQueries ==
    { "", "frequency", "cpm", "CPM roas", "cpm roas spike fashion",
      "cpm roas spike fashion week", "travel  luxury" }

\* the questions put to the pipeline
Questions ==
    { "What is the ROAS?",
      "Why did CPM spike in my fashion campaign?",
      "Compare retargeting vs lookalike ROAS",
      "",
      "hello" }

\* the documents of a table of corpora
DocsIn(table) == UNION {ToSet(table[f]) : f \in DOMAIN table}

\* the content and the metadata text of every document of a set
TextsOf(docs) == {d.page_content : d \in docs} \cup {metadata_text(d) : d \in docs}

KnownTexts ==
    SearchQueries \cup Questions \cup TextsOf(DocPool \cup DocsIn(ProcessedChunksOf))

tokens(s) == ToSet(split(lower(s)))

TokensOf == [s \in KnownTexts |-> tokens(s)]

\* the tokens of s, from the table when it holds them
WordsIn(table, s) == IF s \in DOMAIN table THEN table[s] ELSE tokens(s)

\* set(s.lower().split())
words(s) == WordsIn(TokensOf, s)

(***************************************************************************)
(* Binary64 rounding of the relevance score  overlap/len(Q) + meta*0.1     *)
(* (rag_processor.py:251,256).  The exact value is (10*o + m*q)/(10*q);    *)
(* the triples <<o, q, m>> below are the inputs, for q <= 8, on which the  *)
(* computed double lies one ulp above (below) the double nearest to the    *)
(* exact value.  Scores of one search share q, so they are ordered by      *)
(* (num, dev).                                                             *)
(***************************************************************************)
ScoreUlpAbove ==
    { <<0,3,3>>, <<0,4,3>>, <<0,5,3>>, <<1,5,1>>, <<1,5,4>>, <<2,5,2>>, <<2,5,3>>,
      <<4,5,4>>, <<0,6,3>>, <<0,6,6>>, <<1,6,2>>, <<2,6,4>>, <<5,6,5>>, <<5,6,6>>,
      <<0,7,3>>, <<0,7,6>>, <<0,7,7>>, <<1,7,3>>, <<1,7,4>>, <<1,7,7>>, <<2,7,6>>,
      <<3,7,3>>, <<3,7,6>>, <<5,7,2>>, <<5,7,5>>, <<5,7,6>>, <<6,7,6>>, <<7,7,7>>,
      <<0,8,3>>, <<0,8,6>>, <<0,8,7>>, <<1,8,3>>, <<1,8,6>>, <<1,8,7>>, <<2,8,6>>,
      <<2,8,7>>, <<3,8,6>>, <<3,8,7>>, <<4,8,7>>, <<5,8,7>>, <<6,8,7>>, <<7,8,7>>,
      <<8,8,7>> }
ScoreUlpBelow ==
    { <<2,3,1>>, <<2,6,5>>, <<4,6,1>>, <<4,6,5>>, <<1,7,5>>, <<2,7,1>>, <<3,7,4>>,
      <<4,7,2>>, <<6,7,1>>, <<6,7,3>> }

RelevanceScore(o, q, m) ==
    IF q = 0 THEN [num |-> 0, dev |-> 0]
    ELSE CASE q <= 8 ->
            [num |-> 10 * o + m * q,
             dev |-> IF <<o, q, m>> \in ScoreUlpAbove THEN 1
                     ELSE IF <<o, q, m>> \in ScoreUlpBelow THEN -1 ELSE 0]

\* x > y on floats
FloatGreater(x, y) == x.num > y.num \/ (x.num = y.num /\ x.dev > y.dev)

(***************************************************************************)
(* MockVectorStore.similarity_search (rag_processor.py:240-269)            *)
(***************************************************************************)
query_words(query) == words(query)

content_words(doc) == words(doc.page_content)

metadata_words(doc) == words(metadata_text(doc))

\* overlap / len(query_words) + metadata_overlap * 0.1
score_of_words(qw, cw, mw) ==
    RelevanceScore(Cardinality(qw \cap cw), Cardinality(qw), Cardinality(qw \cap mw))

relevance_score(doc, query) ==
    score_of_words(query_words(query), content_words(doc), metadata_words(doc))

\* if relevance_score > 0: scored_docs.append((relevance_score, doc))
scored_entry(sc, i) == IF sc.num > 0 THEN << [score |-> sc, idx |-> i] >> ELSE <<>>

\* the (relevance_score, doc) pairs with relevance_score > 0, in corpus order
RECURSIVE ScoredFrom(_, _, _)
ScoredFrom(documents, query, i) ==
    IF i > Len(documents) THEN <<>>
    ELSE scored_entry(relevance_score(documents[i], query), i)
         \o ScoredFrom(documents, query, i + 1)

scored_docs(documents, query) == ScoredFrom(documents, query, 1)

\* a sort that puts an element before the elements of equal score
InsertBeforeEqual(sorted, x) ==
    LET before == {j \in 1..Len(sorted) : FloatGreater(sorted[j].score, x.score)}
        n == Cardinality(before)
    IN  SubSeq(sorted, 1, n) \o <<x>> \o SubSeq(sorted, n + 1, Len(sorted))

\* list.sort(key=score, reverse=True): stable, equal keys keep their order
InsertStable(sorted, x) ==
    LET before == {j \in 1..Len(sorted) : ~ FloatGreater(x.score, sorted[j].score)}
        n == Cardinality(before)
    IN  SubSeq(sorted, 1, n) \o <<x>> \o SubSeq(sorted, n + 1, Len(sorted))

RECURSIVE SortFrom(_, _, _)
SortFrom(scored, i, acc) ==
    IF i > Len(scored) THEN acc
    ELSE SortFrom(scored, i + 1, InsertStable(acc, scored[i]))

\* seq reversed
Reversed(seq) == [i \in 1..Len(seq) |-> seq[Len(seq) + 1 - i]]

\* a sort without reverse=True: ascending scores
sort_forward(scored) == Reversed(SortFrom(scored, 1, <<>>))

\* scored_docs.sort(key=lambda x: x[0], reverse=True)
sort_reverse(scored) == SortFrom(scored, 1, <<>>)

\* [doc for _, doc in scored_docs[:k]], as positions in the corpus
top_k(scored, k) == [i \in 1..Min(k, Len(scored)) |-> scored[i].idx]

\* if not results and self.documents: results = self.documents[:k]
or_first_k(results, documents, k) ==
    IF results = <<>> /\ documents # <<>>
    THEN [i \in 1..Min(k, Len(documents)) |-> i]
    ELSE results

\* a search without the "return some relevant docs" branch
similarity_search_no_fallback(documents, query, k) ==
    top_k(sort_reverse(scored_docs(documents, query)), k)

\* MockVectorStore.similarity_search: the positions of the documents returned
similarity_search(documents, query, k) ==
    or_first_k(top_k(sort_reverse(scored_docs(documents, query)), k), documents, k)

(***************************************************************************)
(* The process before a MetaAdsRAGPipeline is constructed.                 *)
(*   env      OPENAI_API_KEY, the data file, the constructor's use_mock    *)
(*   chroma   the persist directory: whether it exists, and its documents  *)
(*   rag      the fields of the CampaignRAGProcessor                       *)
(*   pipeline the fields of the MetaAdsRAGPipeline and the step of its     *)
(*            construction                                                 *)
(*   response the last call of query and the dict it returned              *)
(***************************************************************************)
NoRetriever == [type |-> "None", k |-> 0]

\* stores is the history of self.vectorstore: the vector stores assigned to
\* it, in the order of the assignments
NewRAGProcessor ==
    [campaign_loader |-> FALSE, campaigns_data |-> EmptyData, campaign_chunker |-> FALSE,
     documents |-> <<>>, processed_chunks |-> <<>>, embeddings |-> FALSE,
     vectorstore |-> "None", mock_documents |-> <<>>, stores |-> <<>>]

NewPipeline(use_mock, pc) ==
    [use_mock |-> use_mock, llm |-> "None", retriever |-> NoRetriever,
     rag_chain |-> "None", raised |-> "", pc |-> pc]

NoResponse ==
    [called |-> FALSE, question |-> "", include_sources |-> FALSE, keys |-> {},
     answer |-> "", query_intent |-> [py_type |-> "str", value |-> ""],
     sources |-> <<>>, success |-> FALSE, error |-> "",
     retrieved |-> <<>>, context |-> <<>>, prompt |-> ""]

\* no CampaignQueryProcessor has been constructed
NoQueryProcessor == [intent_patterns |-> <<>>, entity_patterns |-> <<>>]

\* no CampaignDataChunker is under observation
NoChunker == [campaigns_data |-> EmptyData, chunks |-> <<>>, returned |-> <<>>]

\* no batch_query and no get_stats has returned
NoBatch == [called |-> FALSE, questions |-> <<>>, responses |-> <<>>]

NoStats == [called |-> FALSE]

\* no create_vectorstore is under observation
NoBuild == [called |-> FALSE, documents |-> <<>>, embedded |-> <<>>, raised |-> ""]

NoPipeline ==
    /\ batch = NoBatch
    /\ stats = NoStats
    /\ build = NoBuild
    /\ env = [api_key |-> "", data_file |-> "missing", use_mock |-> FALSE]
    /\ chroma = [exists |-> FALSE, docs |-> <<>>]
    /\ rag = NewRAGProcessor
    /\ pipeline = NewPipeline(FALSE, "off")
    /\ response = NoResponse

(***************************************************************************)
(* A MockVectorStore on its own: constructed over a corpus, then searched. *)
(* results holds the positions, in the corpus, of the returned documents.  *)
(***************************************************************************)
RECURSIVE SeqsUpTo(_, _)
SeqsUpTo(S, n) ==
    IF n = 0 THEN {<<>>}
    ELSE LET shorter == SeqsUpTo(S, n - 1)
         IN  shorter \cup {Append(s, x) : s \in {t \in shorter : Len(t) = n - 1}, x \in S}

Corpora == SeqsUpTo(DocPool, MaxCorpus)

NoSearch == [query |-> "", k |-> 0, results |-> <<>>, called |-> FALSE]

InitSearch ==
    /\ \E docs \in Corpora : mvs = [documents |-> docs, last |-> NoSearch]
    /\ qp = <<>>
    /\ query_processor = NoQueryProcessor
    /\ chunker = NoChunker
    /\ NoPipeline

MockVectorStore_similarity_search(query, k) ==
    /\ mvs' = [mvs EXCEPT !.last = [query |-> query, k |-> k,
                                    results |-> similarity_search(mvs.documents, query, k),
                                    called |-> TRUE]]
    /\ UNCHANGED <<qp, query_processor, chunker, pipeline_vars>>

NextSearch ==
    \E query \in SearchQueries, k \in 1..MaxK : MockVectorStore_similarity_search(query, k)

SpecSearch == InitSearch /\ [][NextSearch]_vars

(***************************************************************************)
(* Python re, for the patterns of CampaignQueryProcessor.  Every intent    *)
(* pattern has the shape  \b(a1|a2|..)[\b]  or  \b(a1|..)[\b].*[\b](b1|..) *)
(* a: the first alternation, ab: a \b follows it, dot: a ".*" and a second *)
(* alternation follow, bb: a \b precedes the second alternation.           *)
(***************************************************************************)
Pat2(a, ab, bb, b) == [a |-> a, ab |-> ab, dot |-> TRUE, bb |-> bb, b |-> b]
Pat1(a, ab) == [a |-> a, ab |-> ab, dot |-> FALSE, bb |-> FALSE, b |-> <<>>]

\* \w
IsWordChar(c) == c \in ToSet(LowerCase) \cup ToSet(UpperCase) \cup Digits \cup {"_"}

WordAt(s, i) == i >= 1 /\ i <= Len(s) /\ IsWordChar(CharAt(s, i))

\* \b between the characters i-1 and i
Boundary(s, i) == WordAt(s, i - 1) # WordAt(s, i)

\* the literal w matches at position i
LitAt(s, i, w) == i + Len(w) - 1 <= Len(s) /\ SubSeq(s, i, i + Len(w) - 1) = w

\* the first alternative, in the order written, that matches at i; 0 if none
FirstAlt(s, i, alts) ==
    LET good == {n \in 1..Len(alts) : LitAt(s, i, alts[n])}
    IN  IF good = {} THEN 0 ELSE CHOOSE n \in good : \A m \in good : n <= m

\* "." matches any character but a newline: how far ".*" can reach from j
LineEnd(s, j) ==
    LET nl == {e \in j..Len(s) : CharAt(s, e) = "\n"}
    IN  IF nl = {} THEN Len(s) + 1 ELSE CHOOSE e \in nl : \A f \in nl : e <= f

\* the end of the match of  .*[\b](b1|..)  from j: ".*" is greedy, so the
\* second alternation matches at the last position of the line where it can
TailEnd(p, s, j) ==
    LET at == {k \in j..LineEnd(s, j) :
                   (p.bb => Boundary(s, k)) /\ FirstAlt(s, k, p.b) # 0}
    IN  IF at = {} THEN 0
        ELSE LET k == CHOOSE x \in at : \A y \in at : x >= y
             IN  k + Len(p.b[FirstAlt(s, k, p.b)])

\* the end (one past the last character) of the match starting at i; 0 if none
MatchEnd(p, s, i) ==
    IF ~ Boundary(s, i) THEN 0
    ELSE LET good == {n \in 1..Len(p.a) :
                         /\ LitAt(s, i, p.a[n])
                         /\ (p.ab => Boundary(s, i + Len(p.a[n])))
                         /\ (p.dot => TailEnd(p, s, i + Len(p.a[n])) # 0)}
         IN  IF good = {} THEN 0
             ELSE LET n == CHOOSE x \in good : \A y \in good : x <= y
                  IN  IF p.dot THEN TailEnd(p, s, i + Len(p.a[n]))
                      ELSE i + Len(p.a[n])

\* len(re.findall(p, s)): leftmost matches, each search resuming where the
\* previous match ended
RECURSIVE CountFrom(_, _, _)
CountFrom(p, s, pos) ==
    LET starts == {i \in pos..Len(s) : MatchEnd(p, s, i) # 0}
    IN  IF starts = {} THEN 0
        ELSE LET i == CHOOSE x \in starts : \A y \in starts : x <= y
             IN  1 + CountFrom(p, s, MatchEnd(p, s, i))

findall_count(p, s) == CountFrom(p, s, 1)

(***************************************************************************)
(* CampaignQueryProcessor._build_intent_patterns (query_processor.py:26-93)*)
(***************************************************************************)
intent_patterns ==
    << [intent |-> "performance_anomaly", patterns |-> <<
          Pat2(<<"spike","jump","increase","rise","surge">>, TRUE, TRUE, <<"cpm","cpc","cost","spend">>),
          Pat2(<<"drop","decline","decrease","fall","crash">>, TRUE, TRUE, <<"roas","conversion","ctr","performance">>),
          Pat2(<<"why">>, TRUE, TRUE, <<"high","low","bad","poor","expensive">>),
          Pat2(<<"what">>, FALSE, FALSE, <<"happen","wrong","cause","problem">>),
          Pat1(<<"anomaly","unusual","strange","weird","unexpected">>, FALSE) >>],
       [intent |-> "campaign_comparison", patterns |-> <<
          Pat2(<<"compare">>, TRUE, TRUE, <<"campaign","audience","performance">>),
          Pat1(<<"vs","versus","against","compared to">>, TRUE),
          Pat2(<<"better">>, TRUE, TRUE, <<"campaign","audience","performance">>),
          Pat2(<<"difference","different">>, TRUE, TRUE, <<"between","campaign">>),
          Pat2(<<"retargeting","lookalike","interest">>, TRUE, TRUE, <<"vs","versus","compared">>) >>],
       [intent |-> "performance_ranking", patterns |-> <<
          Pat2(<<"best">>, TRUE, TRUE, <<"perform","campaign","audience","creative">>),
          Pat2(<<"top">>, TRUE, TRUE, <<"perform","campaign","audience">>),
          Pat2(<<"worst","lowest","highest","most","least">>, TRUE, TRUE, <<"perform","roas","cpm","cpc">>),
          Pat2(<<"rank">>, FALSE, TRUE, <<"campaign","audience","performance">>),
          Pat2(<<"which">>, FALSE, TRUE, <<"best","better","perform">>) >>],
       [intent |-> "trend_analysis", patterns |-> <<
          Pat2(<<"trend">>, TRUE, TRUE, <<"over time","monthly","weekly","daily">>),
          Pat1(<<"pattern","seasonal","timeline","history">>, FALSE),
          Pat2(<<"last","past","previous">>, TRUE, TRUE, <<"week","month","quarter","year">>),
          Pat2(<<"over">>, TRUE, TRUE, <<"time","period","duration">>),
          Pat2(<<"growth","decline","change">>, TRUE, TRUE, <<"time","period">>) >>],
       [intent |-> "prediction_forecast", patterns |-> <<
          Pat2(<<"predict">>, TRUE, TRUE, <<"performance","next","future">>),
          Pat2(<<"forecast">>, TRUE, TRUE, <<"week","month","performance">>),
          Pat2(<<"next">>, TRUE, TRUE, <<"week","month","quarter">>),
          Pat2(<<"future">>, TRUE, TRUE, <<"performance","trend","result">>),
          Pat2(<<"will">>, TRUE, TRUE, <<"perform","cost","convert">>),
          Pat2(<<"expect">>, TRUE, TRUE, <<"performance","result","roas">>) >>],
       [intent |-> "optimization_advice", patterns |-> <<
          Pat2(<<"how">>, FALSE, TRUE, <<"improve","optimize","fix","increase","decrease">>),
          Pat2(<<"what">>, FALSE, TRUE, <<"should","recommend","suggest","advice">>),
          Pat1(<<"recommendation","advice","suggestion","tip">>, FALSE),
          Pat1(<<"optimize","improve","fix","boost","enhance">>, FALSE),
          Pat2(<<"should i">>, TRUE, TRUE, <<"pause","stop","increase","decrease">>) >>],
       [intent |-> "budget_spend", patterns |-> <<
          Pat2(<<"budget">>, TRUE, TRUE, <<"increase","decrease","optimize","allocate">>),
          Pat2(<<"spend">>, TRUE, TRUE, <<"too much","too little","optimize","control">>),
          Pat2(<<"cost">>, TRUE, TRUE, <<"per","efficiency","optimization">>),
          Pat2(<<"expensive","cheap","costly">>, TRUE, TRUE, <<"campaign","audience">>),
          Pat2(<<"money">>, TRUE, TRUE, <<"waste","save","optimize","efficient">>) >>],
       [intent |-> "audience_analysis", patterns |-> <<
          Pat2(<<"audience">>, TRUE, TRUE, <<"perform","target","segment","behavior">>),
          Pat2(<<"demographic","interest","behavior">>, TRUE, TRUE, <<"perform","target">>),
          Pat2(<<"age","gender","location","interest">>, TRUE, TRUE, <<"perform","convert">>),
          Pat2(<<"target">>, TRUE, TRUE, <<"audience","demographic","interest">>),
          Pat2(<<"segment">>, TRUE, TRUE, <<"perform","audience","target">>) >>],
       [intent |-> "creative_performance", patterns |-> <<
          Pat2(<<"creative">>, TRUE, TRUE, <<"perform","fatigue","refresh","test">>),
          Pat2(<<"ad">>, TRUE, TRUE, <<"creative","copy","image","video","perform">>),
          Pat2(<<"headline","copy","image","video">>, TRUE, TRUE, <<"perform","test">>),
          Pat2(<<"creative">>, FALSE, TRUE, <<"rotation","refresh","update","change">>),
          Pat2(<<"fatigue","tired","stale">>, TRUE, TRUE, <<"creative","ad","audience">>) >>] >>

(***************************************************************************)
(* Binary64 arithmetic of the intent score (query_processor.py:116-119):   *)
(* score = 0, then score += len(matches) * (1.0 / len(patterns)) for each  *)
(* pattern.  A score is [num, dev]: num the exact value in thirtieths (the *)
(* categories have 5 or 6 patterns), dev the distance in ulps of the       *)
(* computed double from the double nearest to the exact value.  For a      *)
(* category of L patterns, u matches added so far with deviation d, and n  *)
(* further matches, the sets below list the <<u, d, n>> whose sum lies one *)
(* ulp above (below) the nearest double; they cover u + n <= 8.            *)
(***************************************************************************)
SumUlpAbove5 ==
    { <<0,0,3>>, <<0,0,6>>, <<0,0,7>>, <<1,0,2>>, <<1,0,6>>, <<2,0,1>>, <<2,0,4>>,
      <<3,1,3>>, <<3,1,4>>, <<4,0,2>>, <<4,0,3>>, <<6,1,1>> }
SumUlpBelow5 == { <<7,0,1>> }
SumUlpAbove6 == { <<7,0,1>> }
SumUlpBelow6 ==
    { <<0,0,5>>, <<0,0,7>>, <<1,0,4>>, <<1,0,5>>, <<2,0,3>>, <<2,0,5>>, <<3,0,2>>,
      <<3,0,4>>, <<4,0,1>>, <<4,0,3>>, <<5,-1,1>>, <<5,-1,2>>, <<6,-1,1>> }

FloatZero == [num |-> 0, dev |-> 0]
FloatOne == [num |-> 30, dev |-> 0]
\* the literal 0.3
FloatDefaultConfidence == [num |-> 9, dev |-> 0]

\* score + n * (1.0 / L), for L in {5, 6}
ScoreAdd(score, n, L) ==
    LET u == score.num \div (30 \div L)
        key == <<u, score.dev, n>>
        above == IF L = 5 THEN SumUlpAbove5 ELSE SumUlpAbove6
        below == IF L = 5 THEN SumUlpBelow5 ELSE SumUlpBelow6
    IN  IF n = 0 THEN score
        ELSE CASE u + n <= 8 ->
                 [num |-> (u + n) * (30 \div L),
                  dev |-> IF key \in above THEN 1 ELSE IF key \in below THEN -1 ELSE 0]

\* min(x, 1.0)
FloatMinOne(x) == IF FloatGreater(x, FloatOne) THEN FloatOne ELSE x

(***************************************************************************)
(* Python re for the entity patterns (query_processor.py:95-107).  A       *)
(* pattern is a sequence of items; an item is \b, a literal, a character   *)
(* class with a greedy repetition, a group of alternatives (each a         *)
(* sequence of items), or a greedy repetition of a sequence.  For a        *)
(* position i, Ends lists the positions where a match of the item from i   *)
(* can end, in the order backtracking tries them.                          *)
(***************************************************************************)
Unbounded == 1000

WordB == [t |-> "b"]
Lit(w) == [t |-> "lit", w |-> w]
Class(chars, neg, min, max) == [t |-> "set", chars |-> chars, neg |-> neg, min |-> min, max |-> max]
Group(alts) == [t |-> "alt", alts |-> alts]
Rep(body, min, max) == [t |-> "rep", body |-> body, min |-> min, max |-> max]

\* (w1|w2|..) over literals
Words(ws) == Group([n \in 1..Len(ws) |-> <<Lit(ws[n])>>])
\* \d{min,max}, \s+, \s*
D(min, max) == Class(Digits, FALSE, min, max)
Spaces(min) == Class(Whitespace, FALSE, min, Unbounded)
\* [\/\-]  and  ['\"]
DateSep == Class({"/", "-"}, FALSE, 1, 1)
Quote == Class({"'", "\""}, FALSE, 1, 1)

\* the character at i belongs to the class
InClass(item, s, i) == i <= Len(s) /\ ((CharAt(s, i) \in item.chars) # item.neg)

\* how many characters from i on belong to the class, up to item.max
ClassRun(item, s, i) ==
    LET most == Min(item.max, Len(s) - i + 1)
    IN  CHOOSE n \in 0..most :
            /\ \A m \in 0..(n - 1) : InClass(item, s, i + m)
            /\ n = most \/ ~ InClass(item, s, i + n)

\* the ends of a greedy class repetition: the longest run first
ClassEnds(item, i, run) ==
    IF run < item.min THEN <<>> ELSE [n \in 1..(run - item.min + 1) |-> i + run - n + 1]

RECURSIVE Ends(_, _, _)
RECURSIVE EndsSeq(_, _, _, _)
RECURSIVE EndsVia(_, _, _, _, _)
RECURSIVE AltEnds(_, _, _, _)
RECURSIVE RepEnds(_, _, _, _, _)
RECURSIVE RepVia(_, _, _, _, _, _, _)

\* the ends of the items k.. of a sequence from i
EndsSeq(items, s, i, k) ==
    IF k > Len(items) THEN <<i>>
    ELSE EndsVia(items, s, Ends(items[k], s, i), k + 1, 1)

\* the same, from each of the candidate positions in turn
EndsVia(items, s, cands, k, j) ==
    IF j > Len(cands) THEN <<>>
    ELSE EndsSeq(items, s, cands[j], k) \o EndsVia(items, s, cands, k, j + 1)

\* the alternatives n.. of a group, in the order written
AltEnds(alts, s, i, n) ==
    IF n > Len(alts) THEN <<>>
    ELSE EndsSeq(alts[n], s, i, 1) \o AltEnds(alts, s, i, n + 1)

\* a greedy repetition: one more round first, then none
RepEnds(body, s, i, min, max) ==
    (IF max = 0 THEN <<>> ELSE RepVia(body, s, i, EndsSeq(body, s, i, 1), min, max, 1))
    \o (IF min <= 0 THEN <<i>> ELSE <<>>)

RepVia(body, s, i, cands, min, max, j) ==
    IF j > Len(cands) THEN <<>>
    ELSE (IF cands[j] > i THEN RepEnds(body, s, cands[j], min - 1, max - 1) ELSE <<>>)
         \o RepVia(body, s, i, cands, min, max, j + 1)

Ends(item, s, i) ==
    CASE item.t = "b" -> IF Boundary(s, i) THEN <<i>> ELSE <<>>
      [] item.t = "lit" -> IF LitAt(s, i, item.w) THEN <<i + Len(item.w)>> ELSE <<>>
      [] item.t = "set" -> ClassEnds(item, i, ClassRun(item, s, i))
      [] item.t = "alt" -> AltEnds(item.alts, s, i, 1)
      [] item.t = "rep" -> RepEnds(item.body, s, i, item.min, item.max)

RECURSIVE FirstPath(_, _, _, _)
RECURSIVE PathVia(_, _, _, _, _, _)

\* the positions where the items k.. of the pattern start, and where the
\* match ends, for the first way to match from i; <<>> if there is none
FirstPath(items, s, i, k) ==
    IF k > Len(items) THEN <<i>>
    ELSE PathVia(items, s, i, Ends(items[k], s, i), k, 1)

PathOr(i, path, otherwise) == IF path # <<>> THEN <<i>> \o path ELSE otherwise

PathVia(items, s, i, cands, k, j) ==
    IF j > Len(cands) THEN <<>>
    ELSE PathOr(i, FirstPath(items, s, cands[j], k + 1),
                PathVia(items, s, i, cands, k, j + 1))

\* what findall returns for one match: the text of the group, or the tuple of
\* the texts of the groups
MatchValue(groups, s, path) ==
    IF Len(groups) = 1 THEN SubSeq(s, path[groups[1]], path[groups[1] + 1] - 1)
    ELSE [g \in 1..Len(groups) |-> SubSeq(s, path[groups[g]], path[groups[g] + 1] - 1)]

\* the positions of sl where a match of the pattern can start
MatchStarts(p, sl) == {i \in 1..Len(sl) : FirstPath(p.items, sl, i, 1) # <<>>}

Later(starts, pos) == {i \in starts : i >= pos}

Least(S) == CHOOSE i \in S : \A j \in S : i <= j

RECURSIVE FindFrom(_, _, _, _, _)

\* the match that starts at i, then the matches after its end
Matched(p, s, sl, starts, i, path) ==
    <<MatchValue(p.groups, s, path)>>
    \o FindFrom(p, s, sl, starts, Max(path[Len(path)], i + 1))

FoundAt(p, s, sl, starts, i) == Matched(p, s, sl, starts, i, FirstPath(p.items, sl, i, 1))

FindIn(p, s, sl, starts, later) ==
    IF later = {} THEN <<>> ELSE FoundAt(p, s, sl, starts, Least(later))

\* the non-overlapping matches from pos on, leftmost first
FindFrom(p, s, sl, starts, pos) == FindIn(p, s, sl, starts, Later(starts, pos))

\* re.findall(p, s, re.IGNORECASE) for a lower-case pattern: the matches are
\* sought in the lower-cased text sl and read from s
FindAll(p, s, sl) == FindFrom(p, s, sl, MatchStarts(p, sl), 1)

findall(p, s) == FindAll(p, s, lower(s))

(***************************************************************************)
(* CampaignQueryProcessor._build_entity_patterns (query_processor.py:95-107)*)
(***************************************************************************)
entity_patterns ==
    << [entity |-> "campaign_names", groups |-> <<2, 5>>, items |->
          <<WordB, Words(<<"campaign", "ad">>), Spaces(1), Quote,
            Class({"'", "\""}, TRUE, 1, Unbounded), Quote>>],
       [entity |-> "metrics", groups |-> <<2>>, items |->
          <<WordB, Words(<<"roas","cpm","cpc","ctr","spend","cost","conversion",
                           "impression","click","reach","frequency">>), WordB>>],
       [entity |-> "time_periods", groups |-> <<2, 4>>, items |->
          <<WordB, Words(<<"last","past","previous","next">>), Spaces(1),
            Words(<<"week","month","quarter","year","day">>)>>],
       [entity |-> "specific_dates", groups |-> <<2>>, items |->
          <<WordB, Group(<< <<D(1, 2), DateSep, D(1, 2), DateSep, D(2, 4)>>,
                            <<D(4, 4), DateSep, D(1, 2), DateSep, D(1, 2)>> >>), WordB>>],
       [entity |-> "percentages", groups |-> <<2>>, items |->
          <<WordB, Group(<< <<D(1, Unbounded), Rep(<<Lit("."), D(1, Unbounded)>>, 0, 1)>> >>),
            Spaces(0), Lit("%")>>],
       [entity |-> "currency", groups |-> <<2>>, items |->
          <<Lit("$"), Group(<< <<D(1, Unbounded), Rep(<<Lit(","), D(3, 3)>>, 0, Unbounded),
                                 Rep(<<Lit("."), D(2, 2)>>, 0, 1)>> >>)>>],
       [entity |-> "audience_types", groups |-> <<2>>, items |->
          <<WordB, Group(<< <<Lit("retargeting")>>, <<Lit("lookalike")>>, <<Lit("interest")>>,
                            <<Lit("broad")>>, <<Lit("custom")>>,
                            <<Lit("website"), Spaces(1), Lit("visitor")>> >>), WordB>>],
       [entity |-> "industries", groups |-> <<2>>, items |->
          <<WordB, Words(<<"fashion","electronics","fitness","travel","luxury","home","garden">>),
            WordB>>],
       [entity |-> "placements", groups |-> <<2>>, items |->
          <<WordB, Group(<< <<Lit("feed")>>, <<Lit("story")>>, <<Lit("stories")>>,
                            <<Lit("reel")>>, <<Lit("reels")>>, <<Lit("messenger")>>,
                            <<Lit("audience"), Spaces(1), Lit("network")>> >>), WordB>>] >>

(***************************************************************************)
(* CampaignQueryProcessor.classify_query (query_processor.py:109-142)      *)
(***************************************************************************)
\* the number of matches of each pattern of a category in the lower-cased query
match_counts(patterns, query_lower) ==
    [j \in 1..Len(patterns) |-> findall_count(patterns[j], query_lower)]

RECURSIVE ScoreFrom(_, _, _, _)
ScoreFrom(counts, j, L, score) ==
    IF j > Len(counts) THEN score
    ELSE ScoreFrom(counts, j + 1, L, ScoreAdd(score, counts[j], L))

intent_score(counts) == ScoreFrom(counts, 1, Len(counts), FloatZero)

\* the match counts of every pattern of every category
all_counts(self, query) ==
    LET query_lower == lower(query)
    IN  [c \in 1..Len(self.intent_patterns) |->
            match_counts(self.intent_patterns[c].patterns, query_lower)]

intent_scores(counts) == [c \in 1..Len(counts) |-> intent_score(counts[c])]

\* max(keys, key=score): the last key that is at least every key before it
ArgMaxLast(scores) ==
    CHOOSE c \in 1..Len(scores) :
        /\ \A d \in 1..Len(scores) : ~ FloatGreater(scores[d], scores[c])
        /\ \A d \in (c + 1)..Len(scores) : FloatGreater(scores[c], scores[d])

\* max(keys, key=score): the first key whose score no other key exceeds
ArgMaxFirst(scores) ==
    CHOOSE c \in 1..Len(scores) :
        /\ \A d \in 1..Len(scores) : ~ FloatGreater(scores[d], scores[c])
        /\ \A d \in 1..(c - 1) : FloatGreater(scores[c], scores[d])

\* a confidence without the cap at 1.0
confidence_uncapped(max_score) == max_score

confidence_of(max_score) == FloatMinOne(max_score)

best_intent(self, scores) ==
    IF \A c \in 1..Len(scores) : scores[c] = FloatZero
    THEN [intent_type |-> "general_inquiry", confidence |-> FloatDefaultConfidence]
    ELSE LET best == ArgMaxFirst(scores)
         IN  [intent_type |-> self.intent_patterns[best].intent,
              confidence |-> confidence_of(scores[best])]

(***************************************************************************)
(* CampaignQueryProcessor._extract_entities (query_processor.py:144-153).  *)
(* A dict is the sequence of its entries in insertion order.               *)
(***************************************************************************)
\* an entry for every pattern, matched or not
entity_entry_always(entity_type, matches) ==
    << [entity |-> entity_type, matches |-> matches] >>

\* if matches: entities[entity_type] = matches
entity_entry(entity_type, matches) ==
    IF matches # <<>> THEN << [entity |-> entity_type, matches |-> matches] >> ELSE <<>>

RECURSIVE EntitiesFrom(_, _, _)
EntitiesFrom(patterns, query, n) ==
    IF n > Len(patterns) THEN <<>>
    ELSE entity_entry(patterns[n].entity, findall(patterns[n], query))
         \o EntitiesFrom(patterns, query, n + 1)

extract_entities(patterns, query) == EntitiesFrom(patterns, query, 1)

\* entity_type in entities, and entities[entity_type]
HasEntity(entities, entity_type) ==
    \E i \in 1..Len(entities) : entities[i].entity = entity_type

EntityMatches(entities, entity_type) ==
    entities[CHOOSE i \in 1..Len(entities) : entities[i].entity = entity_type].matches

(***************************************************************************)
(* CampaignQueryProcessor._parse_time_period (query_processor.py:203-220)  *)
(***************************************************************************)
Days7 == 7
Days30 == 30
Days90 == 90

period_of(period_lower, time_period) ==
    IF Contains(period_lower, "last week") \/ Contains(period_lower, "past week")
    THEN [period |-> "last_week", days |-> Days7]
    ELSE IF Contains(period_lower, "last month") \/ Contains(period_lower, "past month")
    THEN [period |-> "last_month", days |-> Days30]
    ELSE IF Contains(period_lower, "last quarter")
    THEN [period |-> "last_quarter", days |-> Days90]
    ELSE IF Contains(period_lower, "next week")
    THEN [period |-> "next_week", days |-> Days7]
    ELSE IF Contains(period_lower, "next month")
    THEN [period |-> "next_month", days |-> Days30]
    ELSE [period |-> "custom", raw |-> time_period]

parse_time_period(time_period) == period_of(lower(time_period), time_period)

(***************************************************************************)
(* CampaignQueryProcessor._suggest_filters (query_processor.py:155-201)    *)
(***************************************************************************)
Filter(key, value) == << [key |-> key, value |-> value] >>

\* filters["time_filter"], from the first time period, its groups joined
time_filter(entities) ==
    IF HasEntity(entities, "time_periods") /\ EntityMatches(entities, "time_periods") # <<>>
    THEN Filter("time_filter",
                parse_time_period(join(" ", EntityMatches(entities, "time_periods")[1])))
    ELSE <<>>

\* filters[key] = entities[entity_type]
entity_filter(entities, entity_type, key) ==
    IF HasEntity(entities, entity_type)
    THEN Filter(key, EntityMatches(entities, entity_type))
    ELSE <<>>

\* any(word in query.lower() for word in keywords)
AnyIn(query_lower, keywords) == \E word \in keywords : Contains(query_lower, word)

\* a comparison that is always at campaign level
comparison_type_campaign_only(query_lower) ==
    IF AnyIn(query_lower, {"campaign", "ad"})
    THEN Filter("comparison_type", "campaign_level")
    ELSE <<>>

comparison_type(query_lower) ==
    IF AnyIn(query_lower, {"retargeting", "lookalike"})
    THEN Filter("comparison_type", "audience_type")
    ELSE IF AnyIn(query_lower, {"campaign", "ad"})
    THEN Filter("comparison_type", "campaign_level")
    ELSE <<>>

\* a ranking that looks for ctr before cpm
ranking_metric_ctr_first(query_lower) ==
    IF AnyIn(query_lower, {"roas", "return"}) THEN Filter("ranking_metric", "roas")
    ELSE IF AnyIn(query_lower, {"ctr", "engagement"}) THEN Filter("ranking_metric", "ctr")
    ELSE IF AnyIn(query_lower, {"cpm", "cost", "expensive"}) THEN Filter("ranking_metric", "cpm")
    ELSE <<>>

ranking_metric(query_lower) ==
    IF AnyIn(query_lower, {"roas", "return"}) THEN Filter("ranking_metric", "roas")
    ELSE IF AnyIn(query_lower, {"cpm", "cost", "expensive"}) THEN Filter("ranking_metric", "cpm")
    ELSE IF AnyIn(query_lower, {"ctr", "engagement"}) THEN Filter("ranking_metric", "ctr")
    ELSE <<>>

intent_filters(query_lower, intent) ==
    IF intent = "campaign_comparison" THEN comparison_type(query_lower)
    ELSE IF intent = "performance_ranking" THEN ranking_metric(query_lower)
    ELSE <<>>

suggest_filters(query, entities, intent) ==
    time_filter(entities)
    \o entity_filter(entities, "campaign_names", "campaign_filter")
    \o entity_filter(entities, "audience_types", "audience_filter")
    \o entity_filter(entities, "industries", "industry_filter")
    \o entity_filter(entities, "metrics", "metrics_focus")
    \o intent_filters(lower(query), intent)

\* filters[key], and key in filters
HasFilter(filters, key) == \E i \in 1..Len(filters) : filters[i].key = key

FilterValue(filters, key) ==
    filters[CHOOSE i \in 1..Len(filters) : filters[i].key = key].value

\* the QueryIntent returned (query_processor.py:137-142)
query_intent(query, best, entities) ==
    [intent_type |-> best.intent_type, confidence |-> best.confidence,
     extracted_entities |-> entities,
     suggested_filters |-> suggest_filters(query, entities, best.intent_type)]

classify_from(self, query, scores) ==
    query_intent(query, best_intent(self, scores), extract_entities(self.entity_patterns, query))

classify(self, query) == classify_from(self, query, intent_scores(all_counts(self, query)))

\* CampaignQueryProcessor() (query_processor.py:22-24)
NewQueryProcessor == [intent_patterns |-> intent_patterns, entity_patterns |-> entity_patterns]

ClassifyQueries ==
    { "Why did my CPM spike last week?",
      "Compare my retargeting vs lookalike campaigns",
      "optimize improve fix boost enhance predict forecast next future will expect performance week",
      "vs vs vs vs vs vs",
      "",
      "Why is spend up?\nCPM is high",
      "How can I optimize my ROAS for electronics campaigns?",
      "Show campaign \"Black Friday\" spend of $1,200.50 on 12/25/2024 up 15.5% in feed",
      "website  visitor vs broad in the audience network past  month 2024-01-16 next day",
      "top audience by cost last year",
      "How did CTR change in the previous week versus the past quarter?",
      "Which had the highest return, and the best CPM?",
      "Which ad has the highest CTR and the lowest CPM?",
      "best performing ctr" }

ClassifyOf ==
    [q \in ClassifyQueries \cup Questions |->
        LET counts == all_counts(NewQueryProcessor, q)
            scores == intent_scores(counts)
        IN  [counts |-> counts, scores |-> scores,
             intent |-> classify_from(NewQueryProcessor, q, scores)]]

IntentIn(table, self, query) ==
    IF self = NewQueryProcessor /\ query \in DOMAIN table THEN table[query].intent
    ELSE classify(self, query)

classify_query(self, query) == IntentIn(ClassifyOf, self, query)

(***************************************************************************)
(* A CampaignQueryProcessor on its own: qp holds the last calls of         *)
(* classify_query, oldest first, each with the QueryIntent it returned.    *)
(***************************************************************************)
LastCalls(log) ==
    IF Len(log) <= MaxHistory THEN log ELSE SubSeq(log, Len(log) - MaxHistory + 1, Len(log))

InitClassify ==
    /\ qp = <<>>
    /\ query_processor = NewQueryProcessor
    /\ chunker = NoChunker
    /\ mvs = [documents |-> <<>>, last |-> NoSearch]
    /\ NoPipeline

\* a call that forgets the first intent category
processor_forgetting(self, query) == [self EXCEPT !.intent_patterns = Tail(@)]

\* the processor after classify_query: neither table is assigned to
processor_after(self, query) == self

CampaignQueryProcessor_classify_query(query) ==
    /\ qp' = LastCalls(Append(qp, [query |-> query,
                                    intent |-> classify_query(query_processor, query)]))
    /\ query_processor' = processor_after(query_processor, query)
    /\ UNCHANGED <<mvs, chunker, pipeline_vars>>

NextClassify ==
    \E query \in ClassifyQueries : CampaignQueryProcessor_classify_query(query)

SpecClassify == InitClassify /\ [][NextClassify]_vars

(***************************************************************************)
(* A CampaignDataChunker on its own: constructed over campaigns_data, then *)
(* create_all_chunks is called; chunker.chunks is self.chunks and          *)
(* chunker.returned holds what the last calls returned, oldest first.      *)
(***************************************************************************)
MaxBuilds == 2

\* campaigns whose industries differ in letter case and in space versus
\* underscore
IndustryCampaign(id, name, industry) ==
    [Camp003 EXCEPT !.keys = @ \cup {"industry"}, !.id = id, !.name = name,
                    !.industry = industry]

Camp004 == IndustryCampaign("camp_004", "Patio Sets", "Home Garden")
Camp005 == IndustryCampaign("camp_005", "Planters", "home_garden")
Camp006 == IndustryCampaign("camp_006", "Garden Lights", "Home Garden")
Camp007 == IndustryCampaign("camp_007", "Tool Sheds", "home_garden")

\* a campaign whose date keys are not zero-padded: "2024-1-15" is the greatest
\* key as str and the earlier day
Camp008 ==
    [Camp002 EXCEPT !.id = "camp_008", !.name = "Spring Lookbook",
                    !.daily_performance =
                       << [date |-> "2024-1-15",
                           metrics |-> Metrics(5000, 100, 4000, 5, 20, 800, 40, 21, 12)],
                          [date |-> "2024-02-01",
                           metrics |-> Metrics(7000, 210, 9100, 9, 30, 1300, 43, 38, 15)] >>]

\* a campaign without daily performance and without the optional keys
Camp009 ==
    [keys |-> {"id", "name", "objective", "status", "industry", "daily_performance"},
     id |-> "camp_009", name |-> "Denim Teaser", objective |-> "REACH",
     status |-> "DRAFT", industry |-> "Fashion", audience |-> None,
     budget |-> EmptyDict, targeting |-> EmptyDict,
     daily_performance |-> <<>>, insights |-> <<>>]

\* the campaigns of the data files, each with its own id
CampaignPool ==
    <<Camp001, Camp002, Camp003, Camp004, Camp005, Camp006, Camp007, Camp008, Camp009>>

RECURSIVE Picked(_, _)
\* the campaigns of the pool at the positions chosen, in the order of the pool
Picked(chosen, i) ==
    IF i > Len(CampaignPool) THEN <<>>
    ELSE (IF i \in chosen THEN <<CampaignPool[i]>> ELSE <<>>) \o Picked(chosen, i + 1)

\* CampaignDataChunker(campaigns_data) (data_chunker.py:13-15)
NewChunker(campaigns_data) ==
    [campaigns_data |-> campaigns_data, chunks |-> <<>>, returned |-> <<>>]

InitChunk ==
    /\ \E chosen \in SUBSET (1..Len(CampaignPool)), global_insights \in {NoInsights, DemoInsights} :
          chunker = NewChunker([keys |-> {"campaigns", "global_insights"},
                                campaigns |-> Picked(chosen, 1),
                                global_insights |-> global_insights])
    /\ mvs = [documents |-> <<>>, last |-> NoSearch]
    /\ qp = <<>>
    /\ query_processor = NoQueryProcessor
    /\ NoPipeline

\* a create_all_chunks that goes on appending to the list of the last call
keep_chunks(chunks) == chunks

\* self.chunks = [] (data_chunker.py:19)
reset_chunks(chunks) == <<>>

LastBuilds(log) ==
    IF Len(log) <= MaxBuilds THEN log ELSE SubSeq(log, Len(log) - MaxBuilds + 1, Len(log))

\* self.chunks after the five create_*_chunks have appended to it
chunks_built(chunks, campaigns_data) == reset_chunks(chunks) \o create_all_chunks(campaigns_data)

built(c, chunks) == [c EXCEPT !.chunks = chunks, !.returned = LastBuilds(Append(@, chunks))]

CampaignDataChunker_create_all_chunks ==
    /\ chunker' = built(chunker, chunks_built(chunker.chunks, chunker.campaigns_data))
    /\ UNCHANGED <<mvs, qp, query_processor, pipeline_vars>>

NextChunk == CampaignDataChunker_create_all_chunks

SpecChunk == InitChunk /\ [][NextChunk]_vars

(***************************************************************************)
(* MockLLM and MockRAGChain (rag_pipeline.py:201-247)                      *)
(***************************************************************************)
\* MockLLM.responses, in the order of the dict
responses ==
    << <<"cpm", "Based on the campaign data, CPM spikes can indicate audience saturation or increased competition. I recommend analyzing frequency caps and expanding your target audience.">>,
       <<"roas", "The ROAS data shows strong performance in Electronics campaigns. Consider reallocating budget from underperforming segments to maximize returns.">>,
       <<"frequency", "High frequency rates may indicate audience fatigue. Try refreshing your creative assets or expanding your audience targeting.">>,
       <<"performance", "Campaign performance analysis shows seasonal trends. Black Friday periods typically see 40-60% higher engagement rates.">>,
       <<"optimization", "For campaign optimization, focus on high-performing ad sets and pause underperforming creative variants. A/B testing different audience segments is recommended.">> >>

default_response ==
    "Based on the campaign data provided, I can help analyze your Meta Ads performance. Please provide more specific questions about CPM, ROAS, frequency, or campaign optimization."

\* a responder with nothing to say when no keyword occurs
no_default_response(text) == ""

fallback_response(text) == default_response

\* a responder that answers with the last keyword that occurs
invoke_last_keyword(text) ==
    LET text_lower == lower(text)
        hits == {i \in 1..Len(responses) : Contains(text_lower, responses[i][1])}
    IN  IF hits = {} THEN fallback_response(text)
        ELSE responses[CHOOSE i \in hits : \A j \in hits : i >= j][2]

\* MockLLM.invoke
invoke(text) ==
    LET text_lower == lower(text)
        hits == {i \in 1..Len(responses) : Contains(text_lower, responses[i][1])}
    IN  IF hits = {} THEN fallback_response(text)
        ELSE responses[CHOOSE i \in hits : \A j \in hits : i <= j][2]

context_limit == 3
context_chars == 300

\* a chain that puts only the best document in the prompt
context_docs_best_only(docs) == Take(docs, 1)

\* the documents MockRAGChain.query puts in the prompt
context_docs(docs) == Take(docs, context_limit)

\* "\n\n".join([doc.page_content[:300] for doc in docs[:3]])
context_text(cdocs) ==
    join("\n\n", [i \in 1..Len(cdocs) |-> Take(cdocs[i].page_content, context_chars)])

\* f"Context: {context}\n\nQuestion: {question}"
mock_prompt(docs, question) ==
    "Context: " \o context_text(context_docs(docs)) \o "\n\nQuestion: " \o question

\* the k of get_retriever(search_kwargs={"k": 5})
retriever_k == 5

\* the documents at the positions found
docs_at(documents, found) == [i \in 1..Len(found) |-> documents[found[i]]]

\* MockRetriever.get_relevant_documents
get_relevant_documents(documents, query, k) ==
    docs_at(documents, similarity_search(documents, query, k))

\* the prompts the mock chain can build, and the answer to each, evaluated once
PromptsOf(table) ==
    {mock_prompt(get_relevant_documents(table[f], q, retriever_k), q) :
        f \in DOMAIN table, q \in Questions}

InvokeOf == [p \in PromptsOf(ProcessedChunksOf) |-> invoke(p)]

AnswerIn(table, prompt) == IF prompt \in DOMAIN table THEN table[prompt] ELSE invoke(prompt)

MockLLM_invoke(prompt) == AnswerIn(InvokeOf, prompt)

(***************************************************************************)
(* CampaignRAGProcessor: loading, documents and vector stores              *)
(* (rag_processor.py:69-182).  Each operator returns the exception it      *)
(* raises ("" if none) with the processor as the call leaves it.           *)
(***************************************************************************)
Returned(r) == [raised |-> "", rag |-> r]
Raised(e, r) == [raised |-> e, rag |-> r]

\* self.campaign_loader = CampaignDataLoader(data_file)
loader_made(r, loaded) ==
    IF loaded.raised # "" THEN Raised(loaded.raised, r)
    ELSE Returned([r EXCEPT !.campaign_loader = TRUE,
                            !.campaigns_data = loaded.campaigns_data])

load_campaign_data(r, data_file) ==
    IF r.campaign_loader THEN Returned(r) ELSE loader_made(r, load_data(data_file))

\* the chunker and self.documents, once the data are loaded
documents_made(loaded) ==
    IF loaded.raised # "" THEN loaded
    ELSE Returned([loaded.rag EXCEPT
             !.campaign_chunker = TRUE,
             !.documents = chunk_documents(create_all_chunks(loaded.rag.campaigns_data))])

create_campaign_documents(r, data_file) == documents_made(load_campaign_data(r, data_file))

\* self.processed_chunks, once self.documents exist
chunks_made(created) ==
    IF created.raised # "" THEN created
    ELSE Returned([created.rag EXCEPT !.processed_chunks = split_docs(created.rag.documents)])

split_documents(r, data_file) ==
    chunks_made(IF r.documents = <<>> THEN create_campaign_documents(r, data_file)
                ELSE Returned(r))

\* documents = self.processed_chunks; if not documents: documents = self.split_documents()
chunks_to_index(r, data_file) ==
    IF r.processed_chunks = <<>> THEN split_documents(r, data_file) ELSE Returned(r)

\* self.vectorstore = MockVectorStore(documents)
mock_store_made(ready) ==
    IF ready.raised # "" THEN ready
    ELSE Returned([ready.rag EXCEPT !.vectorstore = "MockVectorStore",
                                    !.mock_documents = ready.rag.processed_chunks,
                                    !.stores = Append(@, "MockVectorStore")])

create_mock_vectorstore(r, data_file) == mock_store_made(chunks_to_index(r, data_file))

\* the API keys of the model, and those the OpenAI service accepts
ApiKeys ==
    {"", "your_openai_api_key_here", "sk-short", "sk-revoked-0000", "sk-live-1111"}
AcceptedKeys == {"sk-live-1111"}

\* create_vectorstore.  embedded: the embedding call of add_documents or
\* from_documents succeeded; dir_made: a from_documents that failed had
\* already created the persist directory.  The result carries the persist
\* directory as the call leaves it.
\* a build that replaces the persisted entries by the documents
chroma_rebuilt(ready, store, embedded, dir_made) ==
    IF ready.raised # "" THEN [raised |-> ready.raised, rag |-> ready.rag, chroma |-> store]
    ELSE IF embedded
         THEN [raised |-> "", rag |-> [ready.rag EXCEPT !.embeddings = TRUE,
                                                       !.vectorstore = "Chroma",
                                 !.stores = Append(@, "Chroma")],
               chroma |-> [exists |-> TRUE, docs |-> ready.rag.processed_chunks]]
         ELSE [raised |-> "APIError", rag |-> [ready.rag EXCEPT !.embeddings = TRUE],
               chroma |-> store]

chroma_made(ready, store, embedded, dir_made) ==
    LET documents == ready.rag.processed_chunks
        r1 == [ready.rag EXCEPT !.embeddings = TRUE]
        existing_count == Len(store.docs)
    IN  IF ready.raised # "" THEN [raised |-> ready.raised, rag |-> ready.rag, chroma |-> store]
        ELSE IF store.exists
        THEN IF existing_count < Len(documents)
             THEN IF embedded
                  THEN [raised |-> "", rag |-> [r1 EXCEPT !.vectorstore = "Chroma",
                                 !.stores = Append(@, "Chroma")],
                        chroma |-> [store EXCEPT !.docs =
                            store.docs \o SubSeq(documents, existing_count + 1, Len(documents))]]
                  ELSE [raised |-> "APIError", rag |-> [r1 EXCEPT !.vectorstore = "Chroma",
                                 !.stores = Append(@, "Chroma")],
                        chroma |-> store]
             ELSE [raised |-> "", rag |-> [r1 EXCEPT !.vectorstore = "Chroma",
                                 !.stores = Append(@, "Chroma")],
                   chroma |-> store]
        ELSE IF embedded
             THEN [raised |-> "", rag |-> [r1 EXCEPT !.vectorstore = "Chroma",
                                 !.stores = Append(@, "Chroma")],
                   chroma |-> [exists |-> TRUE, docs |-> documents]]
             ELSE [raised |-> "APIError", rag |-> r1,
                   chroma |-> [exists |-> dir_made, docs |-> <<>>]]

create_vectorstore(r, data_file, store, embedded, dir_made) ==
    chroma_made(chunks_to_index(r, data_file), store, embedded, dir_made)

\* the documents create_vectorstore hands to the embedding call
to_embed(ready, store) ==
    IF ready.raised # "" THEN <<>>
    ELSE IF store.exists
         THEN SubSeq(ready.rag.processed_chunks, Len(store.docs) + 1,
                     Len(ready.rag.processed_chunks))
         ELSE ready.rag.processed_chunks

docs_to_embed(r, data_file, store) == to_embed(chunks_to_index(r, data_file), store)

\* whether create_vectorstore reaches the embedding call
reaches_embedding(ready, store) ==
    /\ ready.raised = ""
    /\ (store.exists => Len(store.docs) < Len(ready.rag.processed_chunks))

embeds(r, data_file, store) == reaches_embedding(chunks_to_index(r, data_file), store)

(***************************************************************************)
(* The persisted index on its own: processors come and go, each is given   *)
(* its chunks and calls create_vectorstore() over the same persist         *)
(* directory.  build records the last call: the documents it indexed,      *)
(* those it handed to the embedding call, and the exception it raised.     *)
(***************************************************************************)
MaxDocs == 3

IndexPool ==
    { Document("travel", << <<"industry", "luxury">> >>),
      Document("cpm roas spike", << <<"chunk_type", "cpm roas spike">> >>) }

\* the chunk lists of the processors, the empty one included
IndexCorpora == SeqsUpTo(IndexPool, MaxDocs)

InitIndex ==
    /\ chroma \in {[exists |-> FALSE, docs |-> <<>>], [exists |-> TRUE, docs |-> <<>>]}
    /\ rag = NewRAGProcessor
    /\ build = NoBuild
    /\ env = [api_key |-> "sk-live-1111", data_file |-> "missing", use_mock |-> FALSE]
    /\ pipeline = NewPipeline(FALSE, "off")
    /\ response = NoResponse
    /\ batch = NoBatch
    /\ stats = NoStats
    /\ mvs = [documents |-> <<>>, last |-> NoSearch]
    /\ qp = <<>>
    /\ query_processor = NoQueryProcessor
    /\ chunker = NoChunker

\* a processor whose split_documents has produced documents
ProcessorOver(documents) == [NewRAGProcessor EXCEPT !.processed_chunks = documents]

built_index(made, embedded) ==
    [called |-> TRUE, documents |-> made.rag.processed_chunks, embedded |-> embedded,
     raised |-> made.raised]

\* CampaignRAGProcessor.create_vectorstore() of a processor over documents;
\* embedded: the embedding call succeeds
CampaignRAGProcessor_create_vectorstore(documents, embedded, dir_made) ==
    /\ chroma' = create_vectorstore(ProcessorOver(documents), env.data_file, chroma,
                                    embedded, dir_made).chroma
    /\ rag' = create_vectorstore(ProcessorOver(documents), env.data_file, chroma,
                                 embedded, dir_made).rag
    /\ build' = built_index(create_vectorstore(ProcessorOver(documents), env.data_file, chroma,
                                               embedded, dir_made),
                            docs_to_embed(ProcessorOver(documents), env.data_file, chroma))
    /\ UNCHANGED <<env, pipeline, response, batch, stats, mvs, qp, query_processor, chunker>>

NextIndex ==
    \E documents \in IndexCorpora, embedded, dir_made \in BOOLEAN :
        CampaignRAGProcessor_create_vectorstore(documents, embedded, dir_made)

SpecIndex == InitIndex /\ [][NextIndex]_vars

(***************************************************************************)
(* MetaAdsRAGPipeline (rag_pipeline.py:22-183).  pipeline.pc is the step   *)
(* of the constructor: the calls of _setup_pipeline ("setup.*"), its       *)
(* except clause, the calls of _setup_mock_pipeline ("mock.*"), then       *)
(* "ready" once the constructor has returned, or "raised" when it let an   *)
(* exception through.                                                      *)
(***************************************************************************)
valid_key(api_key) ==
    /\ api_key # ""
    /\ api_key # "your_actual_openai_api_key_here"
    /\ api_key # "your_openai_api_key_here"
    /\ Len(api_key) > 10

\* the persist directory before construction: absent, empty, or holding a corpus
PersistDirsOf(table) ==
    { [exists |-> FALSE, docs |-> <<>>],
      [exists |-> TRUE, docs |-> <<>>],
      [exists |-> TRUE, docs |-> table["single"]],
      [exists |-> TRUE, docs |-> table["demo"]] }

PersistDirs == PersistDirsOf(ProcessedChunksOf)

Init ==
    /\ env \in [api_key : ApiKeys, data_file : DataFiles, use_mock : BOOLEAN]
    /\ chroma \in PersistDirs
    /\ rag = NewRAGProcessor
    /\ pipeline = NewPipeline(env.use_mock, "setup.init_llm")
    /\ response = NoResponse
    /\ batch = NoBatch
    /\ stats = NoStats
    /\ build = NoBuild
    /\ mvs = [documents |-> <<>>, last |-> NoSearch]
    /\ qp = <<>>
    /\ query_processor = NewQueryProcessor
    /\ chunker = NoChunker

InSetup == pipeline.pc \in {"setup.init_llm", "setup.init_retriever", "setup.create_rag_chain"}

\* where an exception raised at the current step goes: to the except clause of
\* _setup_pipeline, or out of the constructor
ExceptionTarget == IF InSetup THEN "setup.except" ELSE "raised"

UsesMock == pipeline.use_mock \/ ~ valid_key(env.api_key)

\* _init_llm; constructed: ChatOpenAI(...) returned
init_llm ==
    /\ pipeline.pc \in {"setup.init_llm", "mock.init_llm"}
    /\ LET next == IF InSetup THEN "setup.init_retriever" ELSE "mock.init_retriever"
       IN  IF UsesMock
           THEN pipeline' = [pipeline EXCEPT !.llm = "MockLLM", !.pc = next]
           ELSE \E constructed \in BOOLEAN :
                   pipeline' = IF constructed
                               THEN [pipeline EXCEPT !.llm = "ChatOpenAI", !.pc = next]
                               ELSE [pipeline EXCEPT !.raised = "ValidationError",
                                                     !.pc = ExceptionTarget]
    /\ UNCHANGED <<env, chroma, rag, response, batch, stats, build, mvs, qp,
                 query_processor, chunker>>

\* as_retriever of the vector store the processor holds
as_retriever(vectorstore, k) ==
    [type |-> IF vectorstore = "MockVectorStore" THEN "MockRetriever"
              ELSE "VectorStoreRetriever",
     k |-> k]

\* self.retriever = self.rag_processor.get_retriever(...), or the exception of
\* the vector store; store is the persist directory as the call leaves it
retriever_made(made, store, next) ==
    /\ rag' = made.rag
    /\ chroma' = store
    /\ pipeline' =
         IF made.raised # ""
         THEN [pipeline EXCEPT !.raised = made.raised, !.pc = ExceptionTarget]
         ELSE [pipeline EXCEPT !.retriever = as_retriever(made.rag.vectorstore, retriever_k),
                               !.pc = next]

chroma_retriever_made(made, next) == retriever_made(made, made.chroma, next)

\* the pc after _init_retriever returns
after_retriever == IF InSetup THEN "setup.create_rag_chain" ELSE "mock.create_chain"

\* _init_retriever
init_retriever ==
    /\ pipeline.pc \in {"setup.init_retriever", "mock.init_retriever"}
    /\ IF UsesMock
       THEN retriever_made(create_mock_vectorstore(rag, env.data_file), chroma, after_retriever)
       ELSE \E embedded, dir_made \in BOOLEAN :
            /\ IF embeds(rag, env.data_file, chroma)
               THEN /\ embedded =>
                          \/ env.api_key \in AcceptedKeys
                          \/ docs_to_embed(rag, env.data_file, chroma) = <<>>
                    /\ (embedded \/ chroma.exists) => dir_made
               ELSE embedded /\ dir_made
            /\ chroma_retriever_made(
                   create_vectorstore(rag, env.data_file, chroma, embedded, dir_made),
                   after_retriever)
    /\ UNCHANGED <<env, response, batch, stats, build, mvs, qp,
                 query_processor, chunker>>

\* {"context": retriever, ...} | prompt | llm | StrOutputParser(): the
\* composition accepts a Runnable, a callable or a dict; MockRetriever and
\* MockLLM are none of these
composes(retriever, llm) == retriever.type = "VectorStoreRetriever" /\ llm = "ChatOpenAI"

\* _create_rag_chain
create_rag_chain ==
    /\ pipeline.pc = "setup.create_rag_chain"
    /\ pipeline' = IF composes(pipeline.retriever, pipeline.llm)
                   THEN [pipeline EXCEPT !.rag_chain = "RunnableSequence", !.pc = "ready"]
                   ELSE [pipeline EXCEPT !.raised = "TypeError", !.pc = "setup.except"]
    /\ UNCHANGED <<env, chroma, rag, response, batch, stats, build, mvs, qp,
                 query_processor, chunker>>

\* an except clause that leaves the flag as the constructor got it
except_flag_kept(use_mock) == use_mock

\* self.use_mock = True
except_flag(use_mock) == TRUE

\* the except clause of _setup_pipeline, up to the call of _setup_mock_pipeline
setup_pipeline_except ==
    /\ pipeline.pc = "setup.except"
    /\ pipeline' = [pipeline EXCEPT !.use_mock = except_flag(pipeline.use_mock),
                                    !.raised = "", !.pc = "mock.init_llm"]
    /\ UNCHANGED <<env, chroma, rag, response, batch, stats, build, mvs, qp,
                 query_processor, chunker>>

\* self.rag_chain = MockRAGChain(self.retriever, self.llm)
setup_mock_pipeline_chain ==
    /\ pipeline.pc = "mock.create_chain"
    /\ pipeline' = [pipeline EXCEPT !.rag_chain = "MockRAGChain", !.pc = "ready"]
    /\ UNCHANGED <<env, chroma, rag, response, batch, stats, build, mvs, qp,
                 query_processor, chunker>>

(***************************************************************************)
(* MetaAdsRAGPipeline.query (rag_pipeline.py:144-183)                      *)
(***************************************************************************)
source_chars == 200
max_sources == 3

\* a citation that carries the whole chunk
source_content_whole(page_content) == page_content

\* doc.page_content[:200] + "..." if len(doc.page_content) > 200 else doc.page_content
source_content(page_content) ==
    IF Len(page_content) > source_chars
    THEN Take(page_content, source_chars) \o "..."
    ELSE page_content

\* the source dicts of the documents cited
sources_from(top) ==
    [i \in 1..Len(top) |->
        [content |-> source_content(top[i].page_content), metadata |-> top[i].metadata]]

\* the sources list built from retrieved_docs[:3]
sources_of(retrieved_docs) == sources_from(Take(retrieved_docs, max_sources))

QueryIntent(intent) ==
    [py_type |-> "QueryIntent", intent_type |-> intent.intent_type,
     confidence |-> intent.confidence, extracted_entities |-> intent.extracted_entities,
     suggested_filters |-> intent.suggested_filters]

\* an except clause that returns the apology without the error entry
failure_without_error(question, include_sources, e) ==
    [called |-> TRUE, question |-> question, include_sources |-> include_sources,
     keys |-> {"answer", "query_intent", "sources", "success"},
     answer |-> "I apologize, but I encountered an error processing your query: " \o e,
     query_intent |-> [py_type |-> "str", value |-> "unknown"],
     sources |-> <<>>, success |-> FALSE, error |-> "",
     retrieved |-> <<>>, context |-> <<>>, prompt |-> ""]

\* the dict of the except clause
failure_response(question, include_sources, e) ==
    [called |-> TRUE, question |-> question, include_sources |-> include_sources,
     keys |-> {"answer", "query_intent", "sources", "success", "error"},
     answer |-> "I apologize, but I encountered an error processing your query: " \o e,
     query_intent |-> [py_type |-> "str", value |-> "unknown"],
     sources |-> <<>>, success |-> FALSE, error |-> e,
     retrieved |-> <<>>, context |-> <<>>, prompt |-> ""]

\* the dict of the try block
success_response(question, include_sources, answer, retrieved_docs, context, prompt) ==
    [called |-> TRUE, question |-> question, include_sources |-> include_sources,
     keys |-> {"answer", "query_intent", "sources", "success"},
     answer |-> answer,
     query_intent |-> QueryIntent(classify_query(query_processor, question)),
     sources |-> IF include_sources THEN sources_of(retrieved_docs) ELSE <<>>,
     success |-> TRUE, error |-> "",
     retrieved |-> IF include_sources THEN retrieved_docs ELSE <<>>,
     context |-> context, prompt |-> prompt]

\* the exception of query.lower() for a question that is not a str
AttributeError == "'NoneType' object has no attribute 'lower'"

\* what callers pass as question: the questions, and None
Asked == Questions \cup {None}

\* MockRAGChain.query over the documents retrieved, then the response dict
mock_chain_answered(question, include_sources, docs, prompt) ==
    success_response(question, include_sources, MockLLM_invoke(prompt),
                     docs, context_docs(docs), prompt)

mock_chain_response(question, include_sources, docs) ==
    mock_chain_answered(question, include_sources, docs, mock_prompt(docs, question))

\* query over MockRAGChain, MockRetriever and MockLLM
query_mock(question, include_sources) ==
    IF question = None THEN failure_response(question, include_sources, AttributeError)
    ELSE mock_chain_response(question, include_sources,
             get_relevant_documents(rag.mock_documents, question, pipeline.retriever.k))

\* the answers of the model of the chat completion, the empty one included
Completions == {"", "CPM rose on 2024-01-16 as frequency reached 3.1."}

\* the k most similar documents by embedding distance: one of two orders
Rankings(docs, k) == {Take(docs, k), Take(Reversed(docs), k)}

\* prompt_template of _create_rag_chain (rag_pipeline.py:105-121), before
\* {context}, between {context} and {question}, and after {question}
template_head ==
    "You are a senior Facebook/Meta Ads performance analyst with deep expertise in campaign optimization. You're analyzing real Facebook advertising data from actual campaigns that spent over $20,000 with authentic performance metrics.\n\nREAL CAMPAIGN DATA CONTEXT:\n"

template_middle == "\n\nANALYST QUESTION: "

template_tail ==
    "\n\nANALYSIS GUIDELINES:\n- Use ONLY the specific metrics and data provided in the context\n- Reference actual campaign IDs, spend amounts, and performance numbers\n- Provide actionable insights based on real Facebook Ads best practices\n- Include specific recommendations with quantifiable impacts\n- If discussing CPM, CTR, ROAS - use the exact numbers from the data\n- Consider seasonal patterns, audience fatigue, and competitive factors\n- Format insights professionally as if reporting to a marketing director\n\nEXPERT ANALYSIS:"

\* the list of retrieved documents as the template formats it
documents_text(docs) ==
    "[" \o join(", ", [i \in 1..Len(docs) |->
                         "Document(page_content='" \o docs[i].page_content \o "')"]) \o "]"

\* {"context": self.retriever, "question": RunnablePassthrough()} | prompt
chain_prompt(docs, question) ==
    template_head \o documents_text(docs) \o template_middle \o question \o template_tail

\* query over the LCEL chain: the chain (embedding of the question, then the
\* completion) and the second retrieval each succeed or raise
query_real(question, include_sources, chain_ok, retrieval_ok, completion, ranked) ==
    IF question = None THEN failure_response(question, include_sources, AttributeError)
    ELSE IF ~ chain_ok THEN failure_response(question, include_sources, "APIError")
    ELSE IF include_sources /\ ~ retrieval_ok
         THEN failure_response(question, include_sources, "APIConnectionError")
    ELSE success_response(question, include_sources, completion, ranked, ranked,
                          chain_prompt(ranked, question))

\* the dicts query can return: one over the mock chain; over the LCEL chain
\* one for each outcome of the calls to the service
results_over(question, include_sources, completions, rankings) ==
    IF pipeline.rag_chain = "MockRAGChain"
    THEN {query_mock(question, include_sources)}
    ELSE {query_real(question, include_sources, chain_ok, retrieval_ok, completion, ranked) :
             chain_ok \in {ok \in BOOLEAN : ok => env.api_key \in AcceptedKeys},
             retrieval_ok \in BOOLEAN, completion \in completions, ranked \in rankings}

query_results(question, include_sources) ==
    results_over(question, include_sources, Completions,
                 Rankings(chroma.docs, pipeline.retriever.k))

\* a query whose failure moves the pipeline to the mock backends
pipeline_falling_back(p, result) ==
    IF result.success THEN p
    ELSE [p EXCEPT !.use_mock = TRUE, !.llm = "MockLLM", !.rag_chain = "MockRAGChain"]

\* the pipeline after query has returned result: both the try block and the
\* except clause only read self
pipeline_after_query(p, result) == p

\* a retrieval that takes the first document out of the corpus it searched
processor_consuming(r, question) ==
    [r EXCEPT !.mock_documents = IF @ = <<>> THEN @ ELSE Tail(@)]

\* the rag_processor after query: the retriever and the chain read its
\* vectorstore and documents, and nothing is assigned to
processor_after_query(r, question) == r

query(question, include_sources) ==
    /\ pipeline.pc = "ready"
    /\ response' \in query_results(question, include_sources)
    /\ pipeline' = pipeline_after_query(pipeline, response')
    /\ rag' = processor_after_query(rag, question)
    /\ batch' = NoBatch
    /\ stats' = NoStats
    /\ UNCHANGED <<env, chroma, build, mvs, qp, query_processor, chunker>>

(***************************************************************************)
(* MetaAdsRAGPipeline.batch_query and get_stats (rag_pipeline.py:185-198)  *)
(***************************************************************************)
MaxBatch == 2

\* what callers pass in a batch
BatchAsked == {"Why did CPM spike in my fashion campaign?", None}

Batches == SeqsUpTo(BatchAsked, MaxBatch)

\* the service's answers during a batch: each call still succeeds or raises
\* on its own, with one completion and one ranking
BatchCompletions == {"CPM rose on 2024-01-16 as frequency reached 3.1."}

BatchRankings(docs, k) == {Take(docs, k)}

\* self.query(q): include_sources takes its default, True
batch_item(question) ==
    results_over(question, TRUE, BatchCompletions,
                 BatchRankings(chroma.docs, pipeline.retriever.k))

RECURSIVE batch_results(_, _)
\* [self.query(q) for q in questions], from question i on
batch_results(questions, i) ==
    IF i > Len(questions) THEN {<<>>}
    ELSE {<<result>> \o rest : result \in batch_item(questions[i]),
                               rest \in batch_results(questions, i + 1)}

RECURSIVE pipeline_after_batch(_, _, _)
pipeline_after_batch(p, results, i) ==
    IF i > Len(results) THEN p
    ELSE pipeline_after_batch(pipeline_after_query(p, results[i]), results, i + 1)

RECURSIVE processor_after_batch(_, _, _)
processor_after_batch(r, questions, i) ==
    IF i > Len(questions) THEN r
    ELSE processor_after_batch(processor_after_query(r, questions[i]), questions, i + 1)

\* a batch that returns the responses of the questions that succeeded
batch_responses_successful(questions) ==
    {SelectSeq(results, LAMBDA result : result.success) :
        results \in batch_results(questions, 1)}

\* return [self.query(q) for q in questions]
batch_responses(questions) == batch_results(questions, 1)

batch_query(questions) ==
    /\ pipeline.pc = "ready"
    /\ \E results \in batch_responses(questions) :
          /\ batch' = [called |-> TRUE, questions |-> questions, responses |-> results]
          /\ pipeline' = pipeline_after_batch(pipeline, results, 1)
    /\ rag' = processor_after_batch(rag, questions, 1)
    /\ response' = NoResponse
    /\ stats' = NoStats
    /\ UNCHANGED <<env, chroma, build, mvs, qp, query_processor, chunker>>

model_name == "gpt-4o-mini"

\* CampaignRAGProcessor.get_stats (rag_processor.py:213-230); count is
\* stats["vectorstore_count"], None when the key is not set
processor_stats(r, count) ==
    [called |-> TRUE,
     total_campaigns |-> IF r.campaign_loader THEN Len(Get(r.campaigns_data, "campaigns", <<>>))
                         ELSE 0,
     original_documents |-> Len(r.documents),
     processed_chunks |-> Len(r.processed_chunks),
     vectorstore_ready |-> r.vectorstore # "None",
     embeddings_ready |-> r.embeddings,
     vectorstore_count |-> count]

\* self.vectorstore._collection.count(), or "unknown" when it raises
vectorstore_counts(r, store) ==
    IF r.vectorstore = "Chroma" THEN {str(Len(store.docs)), "unknown"} ELSE {None}

\* stats.update(...) (rag_pipeline.py:192-197)
pipeline_stats(processor, p) ==
    [called |-> TRUE,
     total_campaigns |-> processor.total_campaigns,
     original_documents |-> processor.original_documents,
     processed_chunks |-> processor.processed_chunks,
     vectorstore_ready |-> processor.vectorstore_ready,
     embeddings_ready |-> processor.embeddings_ready,
     vectorstore_count |-> processor.vectorstore_count,
     llm_model |-> IF ~ p.use_mock THEN model_name ELSE "Mock LLM",
     using_mock |-> p.use_mock,
     pipeline_ready |-> p.rag_chain # "None"]

get_stats ==
    /\ pipeline.pc = "ready"
    /\ stats' \in {pipeline_stats(processor_stats(rag, count), pipeline) :
                      count \in vectorstore_counts(rag, chroma)}
    /\ response' = NoResponse
    /\ batch' = NoBatch
    /\ UNCHANGED <<env, chroma, rag, pipeline, build, mvs, qp, query_processor, chunker>>

Next ==
    \/ init_llm
    \/ init_retriever
    \/ create_rag_chain
    \/ setup_pipeline_except
    \/ setup_mock_pipeline_chain
    \/ \E question \in Asked, include_sources \in BOOLEAN : query(question, include_sources)
    \/ \E questions \in Batches : batch_query(questions)
    \/ get_stats

Spec == Init /\ [][Next]_vars

(***************************************************************************)
(* Claims about MetaAdsRAGPipeline, under Spec.                            *)
(***************************************************************************)
\* __init__ has returned
Constructed == pipeline.pc = "ready"

OnMockBackends == pipeline.llm = "MockLLM" /\ rag.vectorstore = "MockVectorStore"

OnRealBackends == pipeline.llm = "ChatOpenAI" /\ rag.vectorstore = "Chroma"

\* OPENAI_API_KEY is missing, a placeholder, or refused by the service
KeyUnusable == env.api_key \notin AcceptedKeys

\* C1: constructing the pipeline never raises, and with a missing, placeholder
\* or invalid OPENAI_API_KEY construction completes on both deterministic
\* backends (MockLLM and MockVectorStore behind a MockRAGChain), never on one
\* real and one deterministic backend.
C1_NeverRaises_BothDeterministic ==
    /\ pipeline.pc # "raised"
    /\ Constructed => (OnMockBackends \/ OnRealBackends)
    /\ (Constructed /\ KeyUnusable) =>
            (OnMockBackends /\ pipeline.rag_chain = "MockRAGChain")

\* C2: once constructed, use_mock is true exactly when the pipeline runs on
\* MockLLM and MockVectorStore, and a pipeline built with no valid API key has
\* use_mock true.
C2_FlagIffDeterministic ==
    Constructed =>
        /\ (pipeline.use_mock <=> OnMockBackends)
        /\ (~ valid_key(env.api_key) => pipeline.use_mock)

\* constructed with use_mock = False and no valid key, and queried since
C2_Witness ==
    /\ Constructed
    /\ ~ env.use_mock
    /\ ~ valid_key(env.api_key)
    /\ pipeline.use_mock
    /\ OnMockBackends
    /\ response.called

\* C3: every call of query returns a response; when classification, retrieval
\* or generation raised it has success = false, an error entry, no sources and
\* the query_intent "unknown"; a successful one has success = true, no error
\* entry and the QueryIntent of the classifier.
C3_FailureIsAResponse ==
    response.called =>
        /\ (response.question = None => ~ response.success)
        /\ IF response.success
           THEN /\ response.keys = {"answer", "query_intent", "sources", "success"}
                /\ response.query_intent.py_type = "QueryIntent"
                /\ response.query_intent.intent_type =
                        classify_query(query_processor, response.question).intent_type
                /\ response.query_intent.confidence =
                        classify_query(query_processor, response.question).confidence
           ELSE /\ response.keys = {"answer", "query_intent", "sources", "success", "error"}
                /\ response.error \in {AttributeError, "APIError", "APIConnectionError"}
                /\ response.sources = <<>>
                /\ response.query_intent = [py_type |-> "str", value |-> "unknown"]

\* the retrieval of the sources raised after the chain had answered
C3_Witness ==
    /\ response.called
    /\ ~ response.success
    /\ response.question = "What is the ROAS?"
    /\ response.error = "APIConnectionError"
    /\ OnRealBackends

\* C4: on MockRAGChain, a query with any question string returns success =
\* true and a non-empty answer, whatever was asked before.
C4_FallbackAlwaysAnswers ==
    (response.called /\ pipeline.rag_chain = "MockRAGChain" /\ response.question # None) =>
        (response.success /\ response.answer # "")

\* the empty question over an empty corpus, answered with the default text
C4_Witness ==
    /\ response.called
    /\ pipeline.rag_chain = "MockRAGChain"
    /\ response.question = ""
    /\ rag.mock_documents = <<>>
    /\ response.success
    /\ response.answer = default_response

\* what a citation of a chunk of this content holds
Cited(page_content) ==
    IF Len(page_content) <= 200 THEN page_content
    ELSE SubSeq(page_content, 1, 200) \o "..."

\* C5: a successful response with include_sources cites at most 3 sources, the
\* first 3 retrieved chunks in retrieval order; a cited content is the chunk
\* content when it has at most 200 characters, else its first 200 characters
\* followed by "...", and never exceeds 203 characters.
C5_ThreeTruncatedSources ==
    (response.called /\ response.success /\ response.include_sources) =>
        /\ Len(response.sources) = Min(3, Len(response.retrieved))
        /\ \A i \in 1..Len(response.sources) :
                /\ response.sources[i].metadata = response.retrieved[i].metadata
                /\ response.sources[i].content = Cited(response.retrieved[i].page_content)
                /\ Len(response.sources[i].content) <= 203

\* five chunks retrieved, three cited, one of them cut to 203 characters and
\* one short enough to be cited whole
C5_Witness ==
    /\ response.called
    /\ response.success
    /\ response.include_sources
    /\ Len(response.retrieved) = 5
    /\ Len(response.sources) = 3
    /\ \E i \in 1..3 : Len(response.sources[i].content) = 203
    /\ \E i \in 1..3 : response.sources[i].content = response.retrieved[i].page_content

(***************************************************************************)
(* Claims about MockVectorStore.similarity_search, under SpecSearch.       *)
(***************************************************************************)
SearchDocs == mvs.documents
SearchLast == mvs.last
SearchScore(i) == relevance_score(SearchDocs[i], SearchLast.query)
SearchPositive == {i \in 1..Len(SearchDocs) : SearchScore(i).num > 0}
SearchReturned == {SearchLast.results[j] : j \in 1..Len(SearchLast.results)}

\* the query shares a token with the content or the metadata values of document i
SharesToken(i) ==
    query_words(SearchLast.query)
        \cap (content_words(SearchDocs[i]) \cup metadata_words(SearchDocs[i])) # {}

\* C6: a search with k >= 1 returns at most k documents, at least one when the
\* corpus is non-empty, the first k documents of the corpus in corpus order when
\* the query is empty or shares no token with any chunk, and none only when the
\* corpus is empty.
C6_AtMostK_NeverEmpty ==
    SearchLast.called =>
        /\ Len(SearchLast.results) <= SearchLast.k
        /\ (SearchDocs # <<>> => Len(SearchLast.results) >= 1)
        /\ (SearchLast.results = <<>> => SearchDocs = <<>>)
        /\ ((\A i \in 1..Len(SearchDocs) : ~ SharesToken(i)) =>
                SearchLast.results = [j \in 1..Min(SearchLast.k, Len(SearchDocs)) |-> j])

C6_Witness ==
    /\ SearchLast.called
    /\ Len(SearchDocs) > SearchLast.k
    /\ SearchLast.query # ""
    /\ \A i \in 1..Len(SearchDocs) : ~ SharesToken(i)
    /\ Len(SearchLast.results) = SearchLast.k

\* document x is ranked before document y: higher score, or equal score and
\* earlier in the corpus
RankedBefore(x, y) ==
    \/ FloatGreater(SearchScore(x), SearchScore(y))
    \/ (SearchScore(x) = SearchScore(y) /\ x < y)

\* C7: when some chunk scores above 0 the result is exactly the first k of the
\* chunks with score > 0 in descending score order, equal scores in corpus
\* order; no chunk with score 0 is returned.
C7_RankedTopK ==
    (SearchLast.called /\ SearchPositive # {}) =>
        LET r == SearchLast.results
        IN  /\ Len(r) = Min(SearchLast.k, Cardinality(SearchPositive))
            /\ SearchReturned \subseteq SearchPositive
            /\ \A a, b \in 1..Len(r) : a < b => RankedBefore(r[a], r[b])
            /\ \A j \in 1..Len(r) : \A i \in SearchPositive \ SearchReturned :
                    RankedBefore(r[j], i)

\* a search with k = 1 over two chunks of equal score > 0 and a chunk of score 0
C7_Witness ==
    /\ SearchLast.called
    /\ SearchLast.k = 1
    /\ Cardinality(SearchPositive) = 2
    /\ Len(SearchDocs) = 3
    /\ 1 \notin SearchPositive
    /\ SearchScore(2) = SearchScore(3)
    /\ SearchLast.results = <<2>>

\* document c is the only one whose content holds every token of the query
OnlyFullMatch(c) ==
    /\ query_words(SearchLast.query) # {}
    /\ query_words(SearchLast.query) \subseteq content_words(SearchDocs[c])
    /\ \A i \in 1..Len(SearchDocs) :
            i # c => ~ (query_words(SearchLast.query) \subseteq content_words(SearchDocs[i]))

MetadataOverlap(i) ==
    Cardinality(query_words(SearchLast.query) \cap metadata_words(SearchDocs[i]))

\* C8 as stated: the only chunk whose content holds every query token is ranked
\* first with score > 0, whatever metadata bonus the other chunks receive.
C8_FullMatchAlwaysFirst ==
    SearchLast.called =>
        \A c \in 1..Len(SearchDocs) :
            OnlyFullMatch(c) => (SearchLast.results[1] = c /\ SearchScore(c).num > 0)

\* C8 amended: the only chunk whose content holds every query token has score
\* > 0, and is ranked first when no other chunk shares more metadata-value
\* tokens with the query than it does.
C8_FullMatchFirstUnlessMetadata ==
    SearchLast.called =>
        \A c \in 1..Len(SearchDocs) :
            OnlyFullMatch(c) =>
                /\ SearchScore(c).num > 0
                /\ ((\A i \in 1..Len(SearchDocs) : MetadataOverlap(i) <= MetadataOverlap(c))
                        => SearchLast.results[1] = c)

\* the full match is ranked first, ahead of an earlier chunk with score > 0
C8_Witness ==
    /\ SearchLast.called
    /\ \E c \in 1..Len(SearchDocs) :
            /\ OnlyFullMatch(c)
            /\ c > 1
            /\ SearchLast.results[1] = c
            /\ \A i \in 1..Len(SearchDocs) : MetadataOverlap(i) <= MetadataOverlap(c)
            /\ \E i \in 1..Len(SearchDocs) : i < c /\ SearchScore(i).num > 0

(***************************************************************************)
(* Claims about CampaignQueryProcessor.classify_query, under SpecClassify. *)
(***************************************************************************)
RECURSIVE SumSeq(_)
SumSeq(seq) == IF seq = <<>> THEN 0 ELSE Head(seq) + SumSeq(Tail(seq))

Categories == 1..Len(intent_patterns)
CountsOf(e) == ClassifyOf[e.query].counts
ScoresOf(e) == ClassifyOf[e.query].scores
\* the matches of category c, and its number of patterns
Matches(e, c) == SumSeq(CountsOf(e)[c])
PatternCount(c) == Len(intent_patterns[c].patterns)
NoMatch(e) == \A c \in Categories : Matches(e, c) = 0
IsDefaultIntent(e) ==
    e.intent.intent_type = "general_inquiry" /\ e.intent.confidence = FloatDefaultConfidence

\* Matches(c)/PatternCount(c) > Matches(d)/PatternCount(d), exactly
AverageGreater(e, c, d) == Matches(e, c) * PatternCount(d) > Matches(e, d) * PatternCount(c)

\* C9 as stated: the winner is the first category of the table among those
\* whose (sum of match counts)/(number of patterns) is maximal; with no match
\* the result is general_inquiry with confidence 0.3.
C9_FirstMaxOfAverages ==
    \A i \in 1..Len(qp) :
        LET e == qp[i]
        IN  IF NoMatch(e) THEN IsDefaultIntent(e)
            ELSE \E c \in Categories :
                    /\ e.intent.intent_type = intent_patterns[c].intent
                    /\ \A d \in Categories : ~ AverageGreater(e, d, c)
                    /\ \A d \in 1..(c - 1) : AverageGreater(e, c, d)

\* C9 amended: the score of a category is the double-precision sum, pattern by
\* pattern, of count * (1.0 / number of patterns); the winner is the first
\* category of the table among those whose computed score is maximal; with no
\* match the result is general_inquiry with confidence 0.3.
C9_FirstMaxOfComputedScores ==
    \A i \in 1..Len(qp) :
        LET e == qp[i]
            sc == ScoresOf(e)
        IN  /\ \A c \in Categories : sc[c].num * PatternCount(c) = 30 * Matches(e, c)
            /\ IF NoMatch(e) THEN IsDefaultIntent(e)
               ELSE \E c \in Categories :
                       /\ e.intent.intent_type = intent_patterns[c].intent
                       /\ \A d \in Categories : ~ FloatGreater(sc[d], sc[c])
                       /\ \A d \in 1..(c - 1) : FloatGreater(sc[c], sc[d])

\* two categories share the maximal computed score and the earlier one won, and
\* a query without any match got the default
C9_Witness ==
    /\ Len(qp) = 2
    /\ NoMatch(qp[2]) /\ IsDefaultIntent(qp[2])
    /\ \E c, d \in Categories :
          /\ c < d
          /\ ScoresOf(qp[1])[c] = ScoresOf(qp[1])[d]
          /\ ScoresOf(qp[1])[c].num > 0
          /\ \A x \in Categories : ~ FloatGreater(ScoresOf(qp[1])[x], ScoresOf(qp[1])[c])
          /\ qp[1].intent.intent_type = intent_patterns[c].intent

\* the greatest computed score of the call
WinningScore(e) ==
    CHOOSE w \in {ScoresOf(e)[c] : c \in Categories} :
        \A c \in Categories : ~ FloatGreater(ScoresOf(e)[c], w)

\* C10: the confidence lies in [0, 1]; it is min(winning score, 1.0) when a
\* category matched (so > 0, and 1.0 when the winning score exceeds 1) and 0.3
\* otherwise.
C10_ConfidenceClamped ==
    \A i \in 1..Len(qp) :
        LET e == qp[i]
            conf == e.intent.confidence
            w == WinningScore(e)
        IN  /\ ~ FloatGreater(FloatZero, conf)
            /\ ~ FloatGreater(conf, FloatOne)
            /\ (NoMatch(e) => conf = FloatDefaultConfidence)
            /\ (~ NoMatch(e) =>
                   /\ FloatGreater(conf, FloatZero)
                   /\ (FloatGreater(w, FloatOne) => conf = FloatOne)
                   /\ (~ FloatGreater(w, FloatOne) => conf = w))

\* a winning score above 1 was capped, and a winning score below 1 was kept
C10_Witness ==
    /\ Len(qp) = 2
    /\ FloatGreater(WinningScore(qp[1]), FloatOne) /\ qp[1].intent.confidence = FloatOne
    /\ FloatGreater(FloatOne, WinningScore(qp[2])) /\ ~ NoMatch(qp[2])
    /\ qp[2].intent.confidence = WinningScore(qp[2])

\* the query of the examples of the classifier
CpmSpikeQuery == "Why did my CPM spike last week?"

CompareAudiencesQuery == "Compare my retargeting vs lookalike campaigns"

\* C11: classify_query is pure and deterministic: two calls with the same
\* query, whatever calls lie between them, return the same intent_type,
\* confidence, extracted_entities and suggested_filters, and no call changes
\* the intent or entity pattern table of the processor.
C11_PureDeterministic ==
    /\ query_processor.intent_patterns = intent_patterns
    /\ query_processor.entity_patterns = entity_patterns
    /\ \A i, j \in 1..Len(qp) :
          qp[i].query = qp[j].query =>
             /\ qp[i].intent.intent_type = qp[j].intent.intent_type
             /\ qp[i].intent.confidence = qp[j].intent.confidence
             /\ qp[i].intent.extracted_entities = qp[j].intent.extracted_entities
             /\ qp[i].intent.suggested_filters = qp[j].intent.suggested_filters

\* a query classified, another one classified, then the first one again
C11_Witness ==
    /\ Len(qp) = 3
    /\ qp[1].query = qp[3].query /\ qp[2].query # qp[1].query
    /\ qp[1].intent.intent_type # qp[2].intent.intent_type
    /\ qp[3].intent.extracted_entities # <<>> /\ qp[3].intent.suggested_filters # <<>>

\* C12: classify_query("Why did my CPM spike last week?") returns
\* intent_type = 'performance_anomaly'.
C12_CpmSpikeIsAnomaly ==
    \A i \in 1..Len(qp) :
        qp[i].query = CpmSpikeQuery => qp[i].intent.intent_type = "performance_anomaly"

\* re.findall of every entity pattern over every query of the harness
MatchesOf ==
    [q \in ClassifyQueries |-> [n \in 1..Len(entity_patterns) |-> findall(entity_patterns[n], q)]]

\* the entries of the entities of call e under the key of entity pattern n
EntriesOf(e, n) ==
    {x \in 1..Len(e.intent.extracted_entities) :
        e.intent.extracted_entities[x].entity = entity_patterns[n].entity}

\* m is a tuple with one text of the query for each group of pattern n
IsGroupTuple(m, n, text) ==
    /\ m = [g \in 1..Len(entity_patterns[n].groups) |-> m[g]]
    /\ \A g \in 1..Len(entity_patterns[n].groups) : Contains(text, m[g])

\* a pattern with a match gives exactly one entry, holding the non-empty list
\* of the matches; a pattern without a match gives no entry
OneEntryPerMatchedPattern(e) ==
    \A n \in 1..Len(entity_patterns) :
        IF MatchesOf[e.query][n] = <<>> THEN EntriesOf(e, n) = {}
        ELSE /\ Cardinality(EntriesOf(e, n)) = 1
             /\ \A x \in EntriesOf(e, n) :
                   LET matches == e.intent.extracted_entities[x].matches
                   IN  /\ Len(matches) >= 1
                       /\ matches = MatchesOf[e.query][n]
                       /\ Len(entity_patterns[n].groups) > 1 =>
                             \A y \in 1..Len(matches) : IsGroupTuple(matches[y], n, e.query)

\* the entities of the example: a metric spelled metric, and last week
SpikeEntities(e, metric) ==
    /\ HasEntity(e.intent.extracted_entities, "metrics")
    /\ metric \in ToSet(EntityMatches(e.intent.extracted_entities, "metrics"))
    /\ HasEntity(e.intent.extracted_entities, "time_periods")
    /\ <<"last", "week">> \in ToSet(EntityMatches(e.intent.extracted_entities, "time_periods"))

\* C13 as claimed: for "Why did my CPM spike last week?" the 'metrics' entry
\* includes the string 'cpm' and the 'time_periods' entry matches 'last week';
\* every entity pattern with a match contributes exactly one entry, the
\* non-empty list of its matches (tuples for multi-group patterns), and a
\* pattern without a match contributes none.
C13_MetricLowerCased ==
    \A i \in 1..Len(qp) :
        /\ qp[i].query = CpmSpikeQuery => SpikeEntities(qp[i], "cpm")
        /\ OneEntryPerMatchedPattern(qp[i])

\* C13, amended: the 'metrics' entry includes the metric as the query spells
\* it, 'CPM' (entities are read from the original-case query); the rest as
\* claimed.
C13_MetricAsWritten ==
    \A i \in 1..Len(qp) :
        /\ qp[i].query = CpmSpikeQuery => SpikeEntities(qp[i], "CPM")
        /\ OneEntryPerMatchedPattern(qp[i])

\* the example classified, and a query with single-group and two-group
\* matches, and patterns without a match, classified
C13_Witness ==
    /\ Len(qp) = 2
    /\ qp[1].query = CpmSpikeQuery /\ SpikeEntities(qp[1], "CPM")
    /\ HasEntity(qp[2].intent.extracted_entities, "campaign_names")
    /\ HasEntity(qp[2].intent.extracted_entities, "currency")
    /\ ~ HasEntity(qp[2].intent.extracted_entities, "industries")

\* C14: classify_query("Compare my retargeting vs lookalike campaigns")
\* returns intent_type = 'campaign_comparison' and suggested_filters with
\* comparison_type = 'audience_type'.
C14_AudienceComparison ==
    \A i \in 1..Len(qp) :
        qp[i].query = CompareAudiencesQuery =>
           /\ qp[i].intent.intent_type = "campaign_comparison"
           /\ HasFilter(qp[i].intent.suggested_filters, "comparison_type")
           /\ FilterValue(qp[i].intent.suggested_filters, "comparison_type") = "audience_type"

\* the example classified, and a comparison that is at campaign level
C14_Witness ==
    /\ Len(qp) = 2
    /\ qp[1].query = CompareAudiencesQuery
    /\ FilterValue(qp[1].intent.suggested_filters, "comparison_type") = "audience_type"
    /\ qp[2].intent.intent_type = "campaign_comparison"
    /\ HasFilter(qp[2].intent.suggested_filters, "comparison_type")
    /\ FilterValue(qp[2].intent.suggested_filters, "comparison_type") = "campaign_level"

(***************************************************************************)
(* Claims about CampaignDataChunker, under SpecChunk.                      *)
(***************************************************************************)
\* chunk["metadata"][key]
MetadataOf(chunk, key) ==
    chunk.metadata[CHOOSE i \in 1..Len(chunk.metadata) : chunk.metadata[i][1] = key][2]

IsOverview(chunk) == MetadataOf(chunk, "chunk_type") = "campaign_overview"

\* the campaigns the chunker was constructed over
ChunkedCampaigns == chunker.campaigns_data.campaigns

UniqueCampaignIds ==
    \A a, b \in 1..Len(ChunkedCampaigns) :
        ChunkedCampaigns[a].id = ChunkedCampaigns[b].id => a = b

ChunkIds(chunks) == [i \in 1..Len(chunks) |-> chunks[i].id]

\* C15: in the chunk list returned by one create_all_chunks call all chunk ids
\* are pairwise distinct, for every campaign collection with unique campaign
\* ids, those whose industry names differ only in letter case or in space
\* versus underscore included.
C15_ChunkIdsDistinct ==
    UniqueCampaignIds =>
       \A n \in 1..Len(chunker.returned) :
          \A i, j \in 1..Len(chunker.returned[n]) :
             chunker.returned[n][i].id = chunker.returned[n][j].id => i = j

\* the positions, in a returned list, of the overview chunks of a campaign
OverviewsOf(chunks, campaign) ==
    {i \in 1..Len(chunks) :
        IsOverview(chunks[i]) /\ MetadataOf(chunks[i], "campaign_id") = campaign.id}

\* C16: for a non-empty campaign collection create_all_chunks returns at
\* least as many chunks as campaigns, exactly one campaign_overview chunk per
\* campaign, with id 'overview_<campaign id>', and the overview chunks come
\* before every daily, insight, comparison and global chunk.
C16_OneOverviewEachFirst ==
    \A n \in 1..Len(chunker.returned) :
        LET chunks == chunker.returned[n]
        IN  ChunkedCampaigns # <<>> =>
               /\ Len(chunks) >= Len(ChunkedCampaigns)
               /\ \A c \in 1..Len(ChunkedCampaigns) :
                     /\ Cardinality(OverviewsOf(chunks, ChunkedCampaigns[c])) = 1
                     /\ \A i \in OverviewsOf(chunks, ChunkedCampaigns[c]) :
                           chunks[i].id = "overview_" \o ChunkedCampaigns[c].id
               /\ Cardinality({i \in 1..Len(chunks) : IsOverview(chunks[i])})
                     = Len(ChunkedCampaigns)
               /\ \A i, j \in 1..Len(chunks) :
                     IsOverview(chunks[i]) /\ ~ IsOverview(chunks[j]) => i < j

\* a build over three campaigns or more that has daily, comparison and global
\* chunks after the overviews
C16_Witness ==
    /\ Len(chunker.returned) >= 1
    /\ Len(ChunkedCampaigns) >= 3
    /\ \E i, j, k \in 1..Len(chunker.returned[1]) :
          /\ MetadataOf(chunker.returned[1][i], "chunk_type") = "daily_performance"
          /\ MetadataOf(chunker.returned[1][j], "chunk_type") = "industry_comparison"
          /\ MetadataOf(chunker.returned[1][k], "chunk_type") = "market_trends"

\* C17: building twice from the same campaign data gives the same sequence of
\* chunk ids, and repeated create_all_chunks calls on one chunker return the
\* same chunk list each time: the list is reset by each call and never
\* accumulates.
C17_RebuildIsIdentical ==
    /\ \A m, n \in 1..Len(chunker.returned) :
          /\ ChunkIds(chunker.returned[m]) = ChunkIds(chunker.returned[n])
          /\ chunker.returned[m] = chunker.returned[n]
    /\ Len(chunker.returned) >= 1 => chunker.chunks = chunker.returned[Len(chunker.returned)]

\* two calls on one chunker over campaigns, both returned lists non-empty
C17_Witness ==
    /\ Len(chunker.returned) = 2
    /\ Len(ChunkedCampaigns) >= 2
    /\ Len(chunker.returned[1]) > Len(ChunkedCampaigns)
    /\ Len(chunker.returned[2]) = Len(chunker.returned[1])

(***************************************************************************)
(* Claims about the data source and the backends of MetaAdsRAGPipeline,    *)
(* under Spec.                                                             *)
(***************************************************************************)
\* a data source that is missing, not JSON, without 'campaigns', or empty
SourcesWithoutCampaigns == {"missing", "invalid_json", "no_campaigns", "empty"}

\* CampaignDataLoader.get_all_campaigns (data_loader.py:55-57)
get_all_campaigns(campaigns_data) == Get(campaigns_data, "campaigns", <<>>)

\* C18: a campaign data source that is missing, is not valid JSON, lacks the
\* 'campaigns' key or has an empty list is never an error: constructing
\* CampaignDataLoader does not raise, get_all_campaigns returns an empty list,
\* create_all_chunks yields no campaign chunk, and the construction of the
\* pipeline still completes.
C18_NoCampaignsIsNoError ==
    env.data_file \in SourcesWithoutCampaigns =>
       /\ load_data(env.data_file).raised = ""
       /\ get_all_campaigns(load_data(env.data_file).campaigns_data) = <<>>
       /\ create_all_chunks(load_data(env.data_file).campaigns_data) = <<>>
       /\ pipeline.pc # "raised"

\* C19: the backends are chosen once, at construction: no query, batch_query
\* or get_stats call, failed queries included, changes use_mock, the llm, the
\* retriever or the rag_chain, so a pipeline never moves between the real and
\* the fallback backends from one call to the next.
C19_BackendsFixedOnceConstructed ==
    [][Constructed =>
          /\ pipeline'.pc = "ready"
          /\ pipeline'.use_mock = pipeline.use_mock
          /\ pipeline'.llm = pipeline.llm
          /\ pipeline'.retriever = pipeline.retriever
          /\ pipeline'.rag_chain = pipeline.rag_chain]_vars

\* a batch on the real backends in which a query failed, and the pipeline is
\* still on the real backends
C19_Witness ==
    /\ Constructed /\ OnRealBackends /\ ~ pipeline.use_mock
    /\ pipeline.rag_chain = "RunnableSequence"
    /\ batch.called /\ Len(batch.responses) = 2
    /\ ~ batch.responses[1].success /\ batch.responses[2].success

(***************************************************************************)
(* Claims about the persisted index, under SpecIndex.                      *)
(***************************************************************************)
\* the documents of a build at the positions n..d-1 (counted from 0)
NewDocuments(documents, n) == SubSeq(documents, n + 1, Len(documents))

\* this step is a create_vectorstore call
IsBuild == build'.called /\ vars' # vars

\* no entry of the index is removed or replaced
IndexKept == SubSeq(chroma'.docs, 1, Len(chroma.docs)) = chroma.docs

\* C20 as claimed: a build over an index of n entries, given d documents,
\* embeds and inserts exactly the documents at positions n..d-1 if n < d and
\* inserts nothing otherwise; no build removes or replaces an entry, and after
\* each build the index holds max(n, d) entries.
C20_AppendOnlyEveryBuild ==
    [][IsBuild =>
          /\ build'.embedded = NewDocuments(build'.documents, Len(chroma.docs))
          /\ chroma'.docs = chroma.docs \o NewDocuments(build'.documents, Len(chroma.docs))
          /\ IndexKept
          /\ Len(chroma'.docs) = Max(Len(chroma.docs), Len(build'.documents))]_vars

\* C20, amended: the documents at positions n..d-1 are handed to the embedding
\* call; a build that returns has inserted exactly them and leaves max(n, d)
\* entries; a build whose embedding call fails raises and inserts nothing; no
\* build removes or replaces an entry, so the size never decreases.
C20_AppendOnlyWhenBuilt ==
    [][IsBuild =>
          /\ build'.embedded = NewDocuments(build'.documents, Len(chroma.docs))
          /\ build'.raised = "" =>
                /\ chroma'.docs = chroma.docs \o NewDocuments(build'.documents, Len(chroma.docs))
                /\ Len(chroma'.docs) = Max(Len(chroma.docs), Len(build'.documents))
          /\ build'.raised # "" => chroma'.docs = chroma.docs
          /\ IndexKept
          /\ Len(chroma'.docs) >= Len(chroma.docs)]_vars

\* a build that returned after appending to an index whose entries are not
\* the first documents of the build
C20_Witness ==
    /\ build.called /\ build.raised = ""
    /\ Len(build.embedded) >= 1
    /\ Len(build.embedded) < Len(build.documents)
    /\ Len(chroma.docs) = Len(build.documents)
    /\ chroma.docs # build.documents

\* the industry create_comparison_chunks files a campaign under
IndustryOf(campaign) == IF "industry" \in campaign.keys THEN campaign.industry ELSE "Unknown"

CampaignsIn(industry) ==
    {c \in 1..Len(ChunkedCampaigns) : IndustryOf(ChunkedCampaigns[c]) = industry}

IsComparison(chunk) == MetadataOf(chunk, "chunk_type") = "industry_comparison"

ComparisonsOf(chunks, industry) ==
    {i \in 1..Len(chunks) : IsComparison(chunks[i]) /\ MetadataOf(chunks[i], "industry") = industry}

\* the sentence that reports a campaign with the metrics of one of its days
Reported(campaign, day) ==
    "'" \o campaign.name \o "' (" \o campaign.status \o ") shows ROAS of "
    \o fixed(day.metrics.roas, 1) \o "x with CPM of $" \o fixed(day.metrics.cpm, 2) \o ". "

\* the days of a campaign whose date key no other key exceeds as str
MaxDays(campaign) ==
    {d \in 1..Len(campaign.daily_performance) :
        \A e \in 1..Len(campaign.daily_performance) :
            ~ StrLess(campaign.daily_performance[d].date, campaign.daily_performance[e].date)}

\* a comparison text reports the campaign with its greatest date key, or
\* leaves a campaign without daily performance out
ReportedIn(content, campaign) ==
    IF campaign.daily_performance = <<>>
    THEN ~ Contains(content, "'" \o campaign.name \o "'")
    ELSE \E d \in MaxDays(campaign) :
            Contains(content, Reported(campaign, campaign.daily_performance[d]))

\* C21: create_comparison_chunks emits exactly one industry_comparison chunk
\* for each industry with at least 2 campaigns and none for an industry with
\* one campaign; in a comparison chunk each campaign is reported with the
\* ROAS and CPM of its greatest date key in str order, and a campaign with an
\* empty daily-performance mapping is left out of the text, the build
\* returning all the same.
C21_OneComparisonPerSharedIndustry ==
    \A n \in 1..Len(chunker.returned) :
        LET chunks == chunker.returned[n]
        IN  /\ \A c \in 1..Len(ChunkedCampaigns) :
                  Cardinality(ComparisonsOf(chunks, IndustryOf(ChunkedCampaigns[c])))
                     = IF Cardinality(CampaignsIn(IndustryOf(ChunkedCampaigns[c]))) >= 2
                       THEN 1 ELSE 0
            /\ \A i \in 1..Len(chunks) :
                  IsComparison(chunks[i]) =>
                     /\ CampaignsIn(MetadataOf(chunks[i], "industry")) # {}
                     /\ \A c \in CampaignsIn(MetadataOf(chunks[i], "industry")) :
                           ReportedIn(chunks[i].content, ChunkedCampaigns[c])

\* a returned comparison of the Fashion campaigns, among them one whose
\* greatest key is not the key written last, one whose greatest key is not
\* its latest day, and one without daily performance
C21_Witness ==
    /\ Len(chunker.returned) >= 1
    /\ {"camp_001", "camp_008", "camp_009"}
          \subseteq {ChunkedCampaigns[c].id : c \in CampaignsIn("Fashion")}
    /\ ComparisonsOf(chunker.returned[1], "Fashion") # {}
    /\ ComparisonsOf(chunker.returned[1], "Unknown") = {}
    /\ \E c \in 1..Len(ChunkedCampaigns) : IndustryOf(ChunkedCampaigns[c]) = "Unknown"

\* the content of the overview chunk of a campaign in a returned list
OverviewText(chunks, campaign) ==
    chunks[CHOOSE i \in 1..Len(chunks) : i \in OverviewsOf(chunks, campaign)].content

\* obj has the key with a value that `if value:` takes: an int, a list
HoldsInt(obj, key) == key \in obj.keys /\ obj[key] # 0
HoldsList(obj, key) == key \in obj.keys /\ obj[key] # <<>>

BudgetOf(campaign) == Get(campaign, "budget", EmptyDict)
TargetingOf(campaign) == Get(campaign, "targeting", EmptyDict)

\* the parts of the text that the code leaves out for a missing field
OmittedWhenMissing(text, campaign) ==
    /\ BudgetOf(campaign).keys = {} => ~ Contains(text, "udget")
    /\ ~ (HoldsInt(TargetingOf(campaign), "age_min") /\ HoldsInt(TargetingOf(campaign), "age_max"))
          => ~ Contains(text, "Targeting ages")
    /\ ~ HoldsList(TargetingOf(campaign), "interests") => ~ Contains(text, "Interest targeting")
    /\ ~ HoldsList(TargetingOf(campaign), "placements") => ~ Contains(text, "Ad placements")

\* C22 as stated: in an overview chunk a missing industry, audience, budget
\* amount, age range, interests or placements is left out of the text, never
\* rendered as 'Unknown' or 0, and the chunk is created all the same.
C22_MissingFieldsOmitted ==
    \A n \in 1..Len(chunker.returned) : \A c \in 1..Len(ChunkedCampaigns) :
        LET campaign == ChunkedCampaigns[c]
            text == OverviewText(chunker.returned[n], campaign)
        IN  /\ OverviewsOf(chunker.returned[n], campaign) # {}
            /\ OmittedWhenMissing(text, campaign)
            /\ {"industry", "audience"} \ campaign.keys # {} => ~ Contains(text, "Unknown")
            /\ {"daily_budget", "total_budget"} \ BudgetOf(campaign).keys # {}
                  => ~ Contains(text, "budget: $0")

\* C22: in an overview chunk a missing budget, age range, interests or
\* placements is left out of the text; a missing industry or audience is
\* written as 'Unknown', and an amount missing from a budget that is there is
\* written as 0; no missing field makes chunk creation fail.
C22_MissingFieldsOmittedOrDefaulted ==
    \A n \in 1..Len(chunker.returned) : \A c \in 1..Len(ChunkedCampaigns) :
        LET campaign == ChunkedCampaigns[c]
            text == OverviewText(chunker.returned[n], campaign)
        IN  /\ OverviewsOf(chunker.returned[n], campaign) # {}
            /\ OmittedWhenMissing(text, campaign)
            /\ "industry" \notin campaign.keys => Contains(text, " campaign in the Unknown industry ")
            /\ "audience" \notin campaign.keys => Contains(text, " industry targeting Unknown. ")
            /\ BudgetOf(campaign).keys # {} /\ "daily_budget" \notin BudgetOf(campaign).keys
                  => Contains(text, "Daily budget: $0, ")
            /\ BudgetOf(campaign).keys # {} /\ "total_budget" \notin BudgetOf(campaign).keys
                  => Contains(text, "Total budget: $0. ")

\* a returned build over a campaign without industry, audience, budget and
\* targeting and one whose budget lacks the total and whose targeting lacks
\* age_max and placements
C22_Witness ==
    /\ Len(chunker.returned) >= 1
    /\ \E a, b \in 1..Len(ChunkedCampaigns) :
          /\ ChunkedCampaigns[a].id = "camp_003"
          /\ ChunkedCampaigns[b].id = "camp_002"
          /\ {"industry", "audience", "budget", "targeting"} \cap ChunkedCampaigns[a].keys = {}
          /\ BudgetOf(ChunkedCampaigns[b]).keys = {"daily_budget"}
          /\ TargetingOf(ChunkedCampaigns[b]).keys = {"age_min", "interests"}
          /\ Contains(OverviewText(chunker.returned[1], ChunkedCampaigns[b]), "Interest targeting")

\* intent_instructions of generate_context_prompt (query_processor.py:241-261)
intent_instructions ==
    << <<"performance_anomaly",
         "\nFocus on identifying root causes, timeline of changes, and actionable recommendations.\nInclude specific metrics and percentage changes where available.">>,
       <<"campaign_comparison",
         "\nProvide a clear side-by-side comparison with specific metrics.\nHighlight the winner and explain why one performs better than the other.">>,
       <<"performance_ranking",
         "\nRank the items clearly (1st, 2nd, 3rd, etc.) with supporting metrics.\nExplain what makes the top performers successful.">>,
       <<"prediction_forecast",
         "\nBase predictions on historical patterns and seasonal trends.\nInclude confidence levels and key assumptions in your forecast.">>,
       <<"optimization_advice",
         "\nProvide specific, actionable recommendations with expected impact.\nPrioritize suggestions by potential ROI and ease of implementation.">> >>

\* the instruction texts the table holds for an intent
InstructionsFor(intent_type) ==
    {intent_instructions[i][2] : i \in {j \in 1..Len(intent_instructions) :
                                           intent_instructions[j][1] = intent_type}}

\* C23: for every query processed by MetaAdsRAGPipeline.query, the prompt
\* handed to the generation capability embeds the content of the chunks given
\* as context, the question, and the instruction text that the per-intent
\* table holds for the classified intent.
C23_PromptCarriesIntentInstructions ==
    response.called /\ response.success =>
        /\ Contains(response.prompt, response.question)
        /\ \A i \in 1..Len(response.context) :
              Contains(response.prompt, Take(response.context[i].page_content, context_chars))
        /\ \A text \in InstructionsFor(response.query_intent.intent_type) :
              Contains(response.prompt, text)

Periods == {"last_week", "last_month", "last_quarter", "next_week", "next_month", "custom"}

\* the period that a detected phrase (word, unit) names, when it names one
NamedPeriod(word, unit) ==
    IF word \in {"last", "past", "previous"} /\ unit \in {"week", "month", "quarter"}
    THEN {"last_" \o unit}
    ELSE IF word = "next" /\ unit \in {"week", "month"} THEN {"next_" \o unit}
    ELSE {}

DaysOf(period) ==
    IF period \in {"last_week", "next_week"} THEN Days7
    ELSE IF period \in {"last_month", "next_month"} THEN Days30
    ELSE Days90

TimeFilterFollows(phrase, filter) ==
    /\ filter.period \in Periods
    /\ filter.period # "custom" => filter.days = DaysOf(filter.period)
    /\ \A period \in NamedPeriod(lower(phrase[1]), lower(phrase[2])) : filter.period = period

\* C24: whenever a time phrase is detected, suggested_filters['time_filter']
\* is derived from the first detected phrase; it holds one of the six periods,
\* with the nominal day count 7, 30 or 90 of a period that is not custom, and
\* a 'past' or 'previous' phrase gets the period of its 'last' counterpart.
C24_TimeFilterFromFirstPhrase ==
    \A n \in 1..Len(qp) :
        HasEntity(qp[n].intent.extracted_entities, "time_periods") =>
            /\ HasFilter(qp[n].intent.suggested_filters, "time_filter")
            /\ TimeFilterFollows(EntityMatches(qp[n].intent.extracted_entities, "time_periods")[1],
                                 FilterValue(qp[n].intent.suggested_filters, "time_filter"))

\* the filters that pass an entity through, each with its entity
PassedThrough ==
    { <<"campaign_names", "campaign_filter">>, <<"audience_types", "audience_filter">>,
      <<"industries", "industry_filter">>, <<"metrics", "metrics_focus">> }

\* the filter of the key is there with the value exactly when value is given
FilterIs(filters, key, values) ==
    /\ HasFilter(filters, key) <=> values # {}
    /\ \A value \in values : FilterValue(filters, key) = value

\* what the claim says comparison_type and ranking_metric are for a query
ClaimedComparison(q) ==
    IF Contains(q, "retargeting") \/ Contains(q, "lookalike") THEN {"audience_type"}
    ELSE IF Contains(q, "campaign") \/ Contains(q, "ad") THEN {"campaign_level"}
    ELSE {}

ClaimedRanking(q) ==
    IF Contains(q, "roas") \/ Contains(q, "return") THEN {"roas"}
    ELSE IF Contains(q, "cpm") \/ Contains(q, "cost") \/ Contains(q, "expensive") THEN {"cpm"}
    ELSE IF Contains(q, "ctr") \/ Contains(q, "engagement") THEN {"ctr"}
    ELSE {}

FiltersFollow(q, intent) ==
    /\ FilterIs(intent.suggested_filters, "comparison_type",
                IF intent.intent_type = "campaign_comparison" THEN ClaimedComparison(q) ELSE {})
    /\ FilterIs(intent.suggested_filters, "ranking_metric",
                IF intent.intent_type = "performance_ranking" THEN ClaimedRanking(q) ELSE {})
    /\ ~ (HasFilter(intent.suggested_filters, "comparison_type")
            /\ HasFilter(intent.suggested_filters, "ranking_metric"))
    /\ \A pair \in PassedThrough :
          FilterIs(intent.suggested_filters, pair[2],
                   IF HasEntity(intent.extracted_entities, pair[1])
                   THEN {EntityMatches(intent.extracted_entities, pair[1])} ELSE {})

\* C25: suggested_filters holds comparison_type only for the intent
\* campaign_comparison and ranking_metric only for performance_ranking, never
\* both; comparison_type is audience_type if the lower-cased query contains
\* 'retargeting' or 'lookalike', else campaign_level if it contains
\* 'campaign' or 'ad'; ranking_metric is chosen roas before cpm before ctr;
\* the campaign, audience, industry and metric entities detected are passed
\* through unchanged as campaign_filter, audience_filter, industry_filter and
\* metrics_focus.
C25_IntentAndEntityFilters ==
    \A n \in 1..Len(qp) : FiltersFollow(lower(qp[n].query), qp[n].intent)

\* the log holds a ranking by roas of a query that also names cpm, a ranking
\* by cpm of a query that also names ctr, and a comparison at campaign level
\* of a query that names audiences
C25_Witness ==
    /\ Len(qp) = 3
    /\ HasFilter(qp[1].intent.suggested_filters, "ranking_metric")
    /\ FilterValue(qp[1].intent.suggested_filters, "ranking_metric") = "roas"
    /\ Contains(lower(qp[1].query), "cpm")
    /\ HasFilter(qp[2].intent.suggested_filters, "ranking_metric")
    /\ FilterValue(qp[2].intent.suggested_filters, "ranking_metric") = "cpm"
    /\ Contains(lower(qp[2].query), "ctr")
    /\ HasFilter(qp[3].intent.suggested_filters, "comparison_type")
    /\ FilterValue(qp[3].intent.suggested_filters, "comparison_type") = "campaign_level"
    /\ HasFilter(qp[3].intent.suggested_filters, "audience_filter")
    /\ HasFilter(qp[3].intent.suggested_filters, "time_filter")

\* the corpus and the index of the rag_processor
CorpusAndIndex(r, store) ==
    <<r.documents, r.processed_chunks, r.vectorstore, r.mock_documents, store>>

\* a fallback query with sources is answered in this step, for a question
\* that the batch just before asked first, other questions after it
AskedAgainAfterBatch ==
    /\ pipeline.rag_chain = "MockRAGChain"
    /\ batch.called /\ Len(batch.questions) >= 1
    /\ batch.responses[1].success
    /\ response'.called /\ response'.success /\ response'.include_sources
    /\ response'.question = batch.questions[1]

\* the same, for the question of the query just before
AskedAgainAfterQuery ==
    /\ pipeline.rag_chain = "MockRAGChain"
    /\ response.called /\ response.success /\ response.include_sources
    /\ response'.called /\ response'.success /\ response'.include_sources
    /\ response'.question = response.question

\* C26: once construction has finished the corpus and the built index are
\* read-only: no query, batch_query or get_stats call changes the
\* rag_processor's documents, processed_chunks or vectorstore, and in
\* fallback mode a query issued again after other queries retrieves the same
\* chunks.
C26_CorpusAndIndexReadOnly ==
    [][Constructed =>
          /\ CorpusAndIndex(rag', chroma') = CorpusAndIndex(rag, chroma)
          /\ AskedAgainAfterBatch => response'.retrieved = batch.responses[1].retrieved
          /\ AskedAgainAfterQuery => response'.retrieved = response.retrieved]_vars

\* a fallback batch over a corpus of several chunks has retrieved chunks for
\* its first question and gone on to a second question
C26_Witness ==
    /\ Constructed /\ pipeline.rag_chain = "MockRAGChain"
    /\ Len(rag.mock_documents) >= 2
    /\ batch.called /\ Len(batch.questions) = 2
    /\ batch.responses[1].success /\ batch.responses[1].retrieved # <<>>
    /\ batch.responses[2].called

\* C27: the similarity index is built exactly once per pipeline instance and
\* then cached: constructing the pipeline and running any number of queries
\* performs one index build in total, and a construction that ends in
\* fallback does not build the index a second time.
C27_IndexBuiltOnce ==
    Constructed => Len(rag.stores) = 1

\* one response per question, at the position of the question; a question
\* that is not a str fails at its position
OneResponseEach(b) ==
    /\ Len(b.responses) = Len(b.questions)
    /\ \A i \in 1..Len(b.questions) :
          /\ b.responses[i].called
          /\ b.responses[i].question = b.questions[i]
          /\ b.questions[i] = None => ~ b.responses[i].success
          /\ ~ b.responses[i].success =>
                "error" \in b.responses[i].keys /\ b.responses[i].sources = <<>>

\* in fallback mode the batch answers a question as the query just before,
\* which asked it alone, whatever the batch asks around it
AnsweredAsAlone(b) ==
    pipeline.rag_chain = "MockRAGChain" /\ response.called /\ response.include_sources =>
        \A i \in 1..Len(b.questions) :
            b.questions[i] = response.question => b.responses[i] = response

\* C28: batch_query(questions) processes the questions in list order and
\* returns exactly one response per question in the same order; a question
\* whose processing fails yields a success = false response at its position
\* and neither prevents nor alters the responses to the other questions.
C28_BatchInOrderOneEach ==
    [][batch'.called => OneResponseEach(batch') /\ AnsweredAsAlone(batch')]_vars

\* a fallback batch whose first question failed and whose second question got
\* an answer with sources
C28_Witness ==
    /\ pipeline.rag_chain = "MockRAGChain"
    /\ batch.called /\ Len(batch.questions) = 2
    /\ batch.questions[1] = None /\ ~ batch.responses[1].success
    /\ batch.questions[2] # None /\ batch.responses[2].success
    /\ batch.responses[2].sources # <<>>

\* the keywords of the canned responder in their fixed order
CannedKeywords == <<"cpm", "roas", "frequency", "performance", "optimization">>

\* the text the claim names: the top 3 retrieved chunks, each cut to 300
\* characters, and the question
TopChunksAndQuestion(retrieved, question) ==
    join("\n\n", [i \in 1..Min(Len(retrieved), context_limit) |->
                      Take(retrieved[i].page_content, context_chars)])
    \o "\n\n" \o question

\* the keywords that occur in a lower-cased text, by their place in the order
KeywordsIn(text_lower) ==
    {i \in 1..Len(CannedKeywords) : Contains(text_lower, CannedKeywords[i])}

\* the answer is the response of the first keyword present, or the default
CannedFor(answer, present) ==
    IF present = {} THEN answer = default_response
    ELSE \E i \in present :
            /\ \A j \in present : i <= j
            /\ responses[i][1] = CannedKeywords[i]
            /\ answer = responses[i][2]

\* a successful fallback response that carries what query retrieved
FallbackAnswered(r) ==
    pipeline.rag_chain = "MockRAGChain" /\ r.called /\ r.success /\ r.include_sources

CannedAnswer(r) ==
    FallbackAnswered(r) =>
        CannedFor(r.answer, KeywordsIn(lower(TopChunksAndQuestion(r.retrieved, r.question))))

\* C29: in fallback mode the answer is the canned response of the first
\* keyword, in the order cpm, roas, frequency, performance, optimization,
\* that occurs in the lower-cased text of the top 3 retrieved chunks, each
\* cut to 300 characters, plus the question, or the default response when
\* none occurs; the same question on the same corpus yields the same answer,
\* here each time a batch asks it.
C29_CannedAnswerByFirstKeyword ==
    /\ CannedAnswer(response)
    /\ \A i \in 1..Len(batch.responses) :
          /\ CannedAnswer(batch.responses[i])
          /\ \A j \in 1..Len(batch.responses) :
                pipeline.rag_chain = "MockRAGChain" /\ batch.questions[i] = batch.questions[j]
                   => batch.responses[i].answer = batch.responses[j].answer

\* a fallback answer to a question that names cpm over chunks that name a
\* later keyword
C29_Witness ==
    /\ FallbackAnswered(response)
    /\ Contains(lower(response.question), "cpm")
    /\ \E i \in 1..Len(response.retrieved), k \in 2..Len(CannedKeywords) :
          Contains(lower(Take(response.retrieved[i].page_content, context_chars)),
                   CannedKeywords[k])
    /\ response.answer = responses[1][2]

\* source i cites chunk i of the context: its metadata, and its content up to
\* the cut of the citation
Cites(source, chunk) ==
    /\ source.metadata = chunk.metadata
    /\ Take(source.content, source_chars) = Take(chunk.page_content, source_chars)

\* C30: in fallback mode the sources cited by a successful
\* query(question, include_sources=true) are the chunks that were given to
\* the canned responder as context for that question, the same chunks in the
\* same order, although query retrieves twice; with include_sources = false
\* the response to a question still has success = true, and no sources.
C30_SourcesAreTheContext ==
    pipeline.rag_chain = "MockRAGChain" /\ response.called /\ response.question # None =>
        /\ response.success
        /\ IF response.include_sources
           THEN /\ Len(response.sources) = Len(response.context)
                /\ \A i \in 1..Len(response.sources) :
                      Cites(response.sources[i], response.context[i])
           ELSE response.sources = <<>>

\* a fallback response that cites 3 chunks out of more than 3 retrieved, the
\* first two of them different chunks
C30_Witness ==
    /\ pipeline.rag_chain = "MockRAGChain"
    /\ response.called /\ response.success /\ response.include_sources
    /\ Len(response.retrieved) > max_sources
    /\ Len(response.sources) = max_sources
    /\ response.context[1] # response.context[2]

====
